---- MODULE Spec2Model ----
(***************************************************************************)
(* Model of the tgo ingestion / dispatch / assignment pipeline.            *)
(*                                                                         *)
(*  - Inbox ledger and channel consumers (tgo-platform listeners).         *)
(*  - Channel producers: webhook store and IMAP mailbox poller.            *)
(*  - Waiting queue, reactive trigger, fallback and cleanup sweeps         *)
(*    (tgo-api).                                                           *)
(*                                                                         *)
(* Every coroutine is cut at its await points: one action is the code      *)
(* between two suspension points, and a database commit takes effect       *)
(* atomically inside the action that awaits it.                            *)
(***************************************************************************)
EXTENDS Integers, Sequences, FiniteSets, TLC

VARIABLES
    now,        \* wall clock, in the time unit of the backoff (seconds)
    kind,       \* consumer family of the ledger: "skip_locked" | "plain"
    inbox,      \* the ledger table: sequence of rows, row id = index
    cons,       \* per consumer instance: position, candidates, ORM copies
    mailbox,    \* the IMAP mailbox: per uid the mail and its \Seen flag
    idempotency,\* TTLIdempotencyStore._store: message id -> expiry time
    raws,       \* per fetched uid: position of its _store_single_raw task
    entries,    \* the visitor_waiting_queue table, entry id = index
    visitors,   \* Visitor.service_status per visitor
    processing, \* _processing_project_ids of queue_trigger_service
    qtasks,     \* per queue coroutine: position, batch, ORM copies
    loops,      \* per background loop: position, outcome and sleep of its cycle
    max_retry_attempts, \* cfg.max_retry_attempts of the platform
    kf_cursor,  \* the KF cursor kept in Redis: messages of the stream behind it
    syncs,      \* per sync_kf_messages call: position, its cursor, page number
    listener,   \* EmailChannelListener: _stop_event, _tasks, poller tasks alive
    processing_ids  \* _processing_ids of process_waiting_queue

ingestVars == <<mailbox, idempotency, raws>>
queueVars == <<entries, visitors, processing, qtasks>>
syncVars == <<kf_cursor, syncs>>
vars == <<now, kind, syncVars, listener, processing_ids, loops, max_retry_attempts,
          inbox, cons, ingestVars, queueVars>>

----------------------------------------------------------------------------
(* Bounds of the model *)

MaxTime == 2
MaxMsgs == 2
MaxInserts == 3
BatchSize == 2          \* processing_batch_size of the platform config
MaxRetryAttempts == 2   \* max_retry_attempts of the platform config
MaxUids == 2            \* mails the mailbox may receive
MaxEmailsPerPoll == 2   \* max_emails_per_poll of the platform config
IdempotencyTtl == 1     \* ttl_seconds of the TTLIdempotencyStore
MaxEntries == 2         \* rows the waiting queue table may hold
QueueProcessBatchSize == 3      \* settings.QUEUE_PROCESS_BATCH_SIZE
QueueProcessMaxWorkers == 1     \* settings.QUEUE_PROCESS_MAX_WORKERS
QueueTimeout == 1               \* queue_wait_timeout_minutes of the project
QueueFallbackInterval == 1      \* settings.QUEUE_FALLBACK_INTERVAL_SECONDS
MaxConcurrent == 2      \* queue coroutines in flight at one time
MaxOrderEntries == 3    \* rows of a queue table that holds several priorities

Mids == 1..MaxMsgs
Consumers == {"c1", "c2"}
Kinds == {"skip_locked", "plain"}

(* processed_at IS NULL *)
NoTime == 0 - 1
NoText == "none"

(* An error text is modelled by its length; error_message is NULL in a    *)
(* row that holds none. str(error)[:2000] keeps the first 2000            *)
(* characters of the text.                                                *)
NoError == 0 - 1
ErrorMessageLimit == 2000
Errors == {ErrorMessageLimit, ErrorMessageLimit + 1}
Truncated(error) == IF error > ErrorMessageLimit THEN ErrorMessageLimit ELSE error

----------------------------------------------------------------------------
(* Small helpers *)

Max(a, b) == IF a >= b THEN a ELSE b

RECURSIVE Pow2(_)
Pow2(n) == IF n <= 0 THEN 1 ELSE 2 * Pow2(n - 1)

Range(s) == {s[i] : i \in 1..Len(s)}

(* All enumerations of the finite set S in nondecreasing key order: the   *)
(* order of rows with equal keys is left to the database.                 *)
SortedSeqs(S, key) ==
    {s \in [1..Cardinality(S) -> S] :
        /\ \A i, j \in 1..Cardinality(S) : i # j => s[i] # s[j]
        /\ \A i, j \in 1..Cardinality(S) : i < j => key[s[i]] <= key[s[j]]}

Take(s, n) == SubSeq(s, 1, IF Len(s) < n THEN Len(s) ELSE n)

----------------------------------------------------------------------------
(* Inbox ledger *)

(* fetched_at has the server default now(): rows are fetched in the order *)
(* of their insertion, which is the order of their row ids here.          *)
NewRow(m) ==
    [message_id |-> m, status |-> "pending", retry_count |-> 0,
     processed_at |-> NoTime, error_message |-> NoError, ai_reply |-> NoText]

(* INSERT under UNIQUE (platform_id, message_id): the commit raises       *)
(* IntegrityError when a row with the pair exists, else appends the row.  *)
UniqueViolation(rows, m) == \E i \in 1..Len(rows) : rows[i].message_id = m

InsertRowNoUnique(rows, m) == Append(rows, NewRow(m))

InsertRow(rows, m) ==
    IF UniqueViolation(rows, m) THEN rows ELSE Append(rows, NewRow(m))

RowsIn(rows, m) == {i \in 1..Len(rows) : rows[i].message_id = m}
RowsOf(m) == RowsIn(inbox, m)

----------------------------------------------------------------------------
(* Channel consumer: candidate selection *)

(* max(0, int(cfg.max_retry_attempts or 3)): a configured 0 reads as 3 *)
DefaultMaxRetryAttempts == 3
DefaultBatchSize == 10
EffectiveMaxRetries(cfg) == Max(0, IF cfg = 0 THEN DefaultMaxRetryAttempts ELSE cfg)
EffectiveBatchSize(cfg) == Max(1, IF cfg = 0 THEN DefaultBatchSize ELSE cfg)

(* delay = max(1, 2 ** retry_count) *)
BackoffDelay(n) == Max(1, Pow2(n))

BackoffElapsed(row, t) ==
    row.processed_at = NoTime \/ t - row.processed_at >= BackoffDelay(row.retry_count)

(* Rows another open transaction holds FOR UPDATE *)
LockedByOthers(c) == UNION {cons[d].locked : d \in Consumers \ {c}}

(* Rows the two SELECTs of a pass can see: all of them without FOR UPDATE *)
(* SKIP LOCKED, the unlocked ones with it.                                *)
Visible(c) ==
    IF kind = "skip_locked"
    THEN {i \in 1..Len(inbox) : i \notin LockedByOthers(c)}
    ELSE 1..Len(inbox)

PendingIds(c) == {i \in Visible(c) : inbox[i].status = "pending"}

FailedIds(c, maxRetries) ==
    {i \in Visible(c) : inbox[i].status = "failed" /\ inbox[i].retry_count < maxRetries}

FetchedAt(i) == i
(* processed_at.asc().nullsfirst(): NoTime sorts before every time *)
ProcessedAt(i) == inbox[i].processed_at

(* The python loop over the failed rows, on the session's copies of them: *)
(* keep those whose backoff window has elapsed until the batch is full.   *)
RECURSIVE TopUp(_, _, _, _, _)
TopUp(cands, failed, view, batch, t) ==
    IF failed = <<>> \/ Len(cands) >= batch THEN cands
    ELSE IF BackoffElapsed(view[Head(failed)], t)
         THEN TopUp(Append(cands, Head(failed)), Tail(failed), view, batch, t)
         ELSE TopUp(cands, Tail(failed), view, batch, t)

(* The results the first SELECT (pending, oldest first, LIMIT batch) may  *)
(* return, one per order the database may give rows of equal fetched_at.  *)
SelectPending(c, batch) ==
    {Take(s, batch) : s \in SortedSeqs(PendingIds(c), [i \in PendingIds(c) |-> FetchedAt(i)])}

(* The results of the second SELECT (failed, retry_count < max_retries,   *)
(* processed_at ascending nulls first, LIMIT batch * 3).                  *)
SelectFailed(c, batch, maxRetries) ==
    {Take(s, batch * 3) : s \in SortedSeqs(FailedIds(c, maxRetries),
                                      [i \in FailedIds(c, maxRetries) |-> ProcessedAt(i)])}

(* The session's identity map: a row already loaded keeps its copy. *)
Loaded(snap, ids) ==
    [i \in (DOMAIN snap) \cup ids |-> IF i \in DOMAIN snap THEN snap[i] ELSE inbox[i]]

----------------------------------------------------------------------------
(* Channel consumer: one pass of _process_pending_for_platform *)

NoSnap == [i \in {} |-> 0]

IdleConsumer ==
    [pc |-> "idle", cands |-> <<>>, idx |-> 0, snap |-> NoSnap, locked |-> {}]

batch_size == EffectiveBatchSize(BatchSize)
max_retries == EffectiveMaxRetries(max_retry_attempts)

(* UPDATE ... WHERE id = :id of the columns the unit of work changed *)
Flush(dbrow, old, new) ==
    [f \in DOMAIN dbrow |-> IF new[f] # old[f] THEN new[f] ELSE dbrow[f]]

(* The write of row r waits while another transaction holds its row lock *)
CanWrite(c, r) == r \notin LockedByOthers(c)

(* End of the pass: the session is closed, its transaction rolled back *)
EndPass(c) == cons' = [cons EXCEPT ![c] = IdleConsumer]

(* Next candidate of the for loop, or the end of the pass *)
Advance(c, snap) ==
    IF cons[c].idx < Len(cons[c].cands)
    THEN cons' = [cons EXCEPT ![c] = [@ EXCEPT !.pc = "claim", !.idx = @ + 1,
                                               !.snap = snap, !.locked = {}]]
    ELSE EndPass(c)

(* session.rollback(): the pending changes are dropped, locks released,   *)
(* and every loaded copy is expired and reloaded from the table.          *)
Expired(c) == [i \in DOMAIN cons[c].snap |-> inbox[i]]

(* lines 137-148: the pending SELECT; remaining = batch_size - len(pending) *)
_select_candidates_pending(c) ==
    /\ cons[c].pc = "idle"
    /\ \E p \in SelectPending(c, batch_size) :
         cons' = [cons EXCEPT ![c] =
            [pc |-> IF batch_size - Len(p) > 0 THEN "failedq" ELSE "claim",
             cands |-> p, idx |-> 1, snap |-> Loaded(NoSnap, Range(p)),
             locked |-> IF kind = "skip_locked" THEN Range(p) ELSE {}]]
    /\ UNCHANGED <<now, kind, syncVars, listener, processing_ids, max_retry_attempts, loops, inbox, ingestVars, queueVars>>

(* lines 150-172 and 291-292: the failed SELECT, the backoff filter, and  *)
(* the early return on an empty batch.                                    *)
_select_candidates_failed(c) ==
    /\ cons[c].pc = "failedq"
    /\ \E f \in SelectFailed(c, batch_size, max_retries) :
         LET view == Loaded(cons[c].snap, Range(f))
             cands == TopUp(cons[c].cands, f, view, batch_size, now)
         IN IF cands = <<>>
            THEN EndPass(c)
            ELSE cons' = [cons EXCEPT ![c] =
                    [pc |-> "claim", cands |-> cands, idx |-> 1, snap |-> view,
                     locked |-> IF kind = "skip_locked"
                                THEN cons[c].locked \cup Range(f) ELSE {}]]
    /\ UNCHANGED <<now, kind, syncVars, listener, processing_ids, max_retry_attempts, loops, inbox, ingestVars, queueVars>>

Claimed(copy) == [copy EXCEPT !.status = "processing", !.error_message = NoError]

(* _claim_record with a commit that succeeds: the row is written and the  *)
(* transaction's row locks are released.                                  *)
_claim_record(c) ==
    /\ cons[c].pc = "claim"
    /\ LET r == cons[c].cands[cons[c].idx]
           old == cons[c].snap[r]
           row == Flush(inbox[r], old, Claimed(old))
       IN /\ CanWrite(c, r)
          /\ inbox' = [inbox EXCEPT ![r] = row]
          /\ cons' = [cons EXCEPT ![c] = [@ EXCEPT !.pc = "respond", !.locked = {},
                                                    !.snap = [@ EXCEPT ![r] = Claimed(old)]]]
    /\ UNCHANGED <<now, kind, syncVars, listener, processing_ids, max_retry_attempts, loops, ingestVars, queueVars>>

(* The claim commit raises. DingTalk, Feishu, WeCom: caught in            *)
(* _claim_record, rollback, the record is skipped. WuKongIM, Email: the   *)
(* commit is outside the try, the exception leaves the pass.              *)
ClaimFails(c) ==
    /\ cons[c].pc = "claim"
    /\ IF kind = "skip_locked"
       THEN Advance(c, Expired(c))
       ELSE EndPass(c)
    /\ UNCHANGED <<now, kind, syncVars, listener, processing_ids, max_retry_attempts, loops, inbox, ingestVars, queueVars>>

(* A row that would be completed without its reply text *)
CompletedWithoutReply(copy, reply, t) ==
    [copy EXCEPT !.status = "completed", !.processed_at = t, !.error_message = NoError]

Completed(copy, reply, t) ==
    [copy EXCEPT !.ai_reply = reply, !.status = "completed",
                 !.processed_at = t, !.error_message = NoError]

Failed(copy, t, error) ==
    [copy EXCEPT !.status = "failed", !.processed_at = t,
                 !.retry_count = copy.retry_count + 1,
                 !.error_message = Truncated(error)]

Replies == {"reply", NoText}

(* _finalize_success(db, rec, reply_text) with a commit that succeeds *)
FinalizeSuccess(c, reply) ==
    LET r == cons[c].cands[cons[c].idx]
        old == cons[c].snap[r]
        new == Completed(old, reply, now)
        row == Flush(inbox[r], old, new)
    IN /\ CanWrite(c, r)
       /\ inbox' = [inbox EXCEPT ![r] = row]
       /\ Advance(c, [cons[c].snap EXCEPT ![r] = new])

(* The Responder returns and the completed row is committed *)
_finalize_success(c) ==
    /\ cons[c].pc = "respond"
    /\ \E reply \in Replies : FinalizeSuccess(c, reply)
    /\ UNCHANGED <<now, kind, syncVars, listener, processing_ids, max_retry_attempts, loops, ingestVars, queueVars>>

(* The Responder (or normalisation) raises and the failed row is committed *)
_finalize_failure(c) ==
    /\ cons[c].pc = "respond"
    /\ \E error \in Errors :
       LET r == cons[c].cands[cons[c].idx]
           old == cons[c].snap[r]
           new == Failed(old, now, error)
           row == Flush(inbox[r], old, new)
       IN /\ CanWrite(c, r)
          /\ inbox' = [inbox EXCEPT ![r] = row]
          /\ Advance(c, [cons[c].snap EXCEPT ![r] = new])
    /\ UNCHANGED <<now, kind, syncVars, listener, processing_ids, max_retry_attempts, loops, ingestVars, queueVars>>

(* The commit of the completed row raises. DingTalk, Feishu, WeCom:       *)
(* _finalize_success swallows it and rolls back, the row keeps its        *)
(* committed status. WuKongIM, Email: the commit is inside the try, the   *)
(* except branch marks the same copy failed and commits again.            *)
SuccessCommitFails(c) ==
    /\ cons[c].pc = "respond"
    /\ IF kind = "skip_locked"
       THEN /\ Advance(c, Expired(c))
            /\ UNCHANGED inbox
       ELSE \E reply \in Replies, error \in Errors :
            LET r == cons[c].cands[cons[c].idx]
                old == cons[c].snap[r]
                new == Failed(Completed(old, reply, now), now, error)
                row == Flush(inbox[r], old, new)
            IN \/ /\ inbox' = [inbox EXCEPT ![r] = row]
                  /\ Advance(c, [cons[c].snap EXCEPT ![r] = new])
               \/ /\ EndPass(c)
                  /\ UNCHANGED inbox
    /\ UNCHANGED <<now, kind, syncVars, listener, processing_ids, max_retry_attempts, loops, ingestVars, queueVars>>

(* The commit of the failed row raises. DingTalk, Feishu, WeCom:          *)
(* _finalize_failure swallows it and rolls back. WuKongIM, Email: the     *)
(* commit is in the except branch, the exception leaves the pass.         *)
FailureCommitFails(c) ==
    /\ cons[c].pc = "respond"
    /\ IF kind = "skip_locked"
       THEN Advance(c, Expired(c))
       ELSE EndPass(c)
    /\ UNCHANGED <<now, kind, syncVars, listener, processing_ids, max_retry_attempts, loops, inbox, ingestVars, queueVars>>

(* stop(): the consumer task is cancelled at the await it is suspended    *)
(* in; CancelledError is no Exception, so no except branch of the pass    *)
(* runs and the session is closed. A process crash has the same effect.   *)
stop(c) ==
    /\ cons[c].pc # "stopped"
    /\ cons' = [cons EXCEPT ![c] = [IdleConsumer EXCEPT !.pc = "stopped"]]
    /\ UNCHANGED <<now, kind, syncVars, listener, processing_ids, max_retry_attempts, loops, inbox, ingestVars, queueVars>>

(* start(): a new consumer task *)
start(c) ==
    /\ cons[c].pc = "stopped"
    /\ cons' = [cons EXCEPT ![c] = IdleConsumer]
    /\ UNCHANGED <<now, kind, syncVars, listener, processing_ids, max_retry_attempts, loops, inbox, ingestVars, queueVars>>

----------------------------------------------------------------------------
(* Webhook producer *)

(* try_store_wecom_inbox: add + commit; IntegrityError -> rollback, False *)
try_store_wecom_inbox(m) ==
    /\ Len(inbox) < MaxInserts
    /\ inbox' = InsertRow(inbox, m)
    /\ UNCHANGED <<now, kind, syncVars, listener, processing_ids, max_retry_attempts, loops, cons, ingestVars, queueVars>>

----------------------------------------------------------------------------
(* Mailbox producer: EmailChannelListener._poll_platform *)

Uids == 1..MaxUids
NoMid == 0
NoMail == [mid |-> NoMid, flag |-> "absent"]

(* "Message-ID": message_id or uid_str (line 414) and                     *)
(* mid = raw["Message-ID"] or raw["imap_uid"] (line 437): a mail without  *)
(* the header is keyed by its uid, a key no vendor message id equals.     *)
MessageIdOf(u) == IF mailbox[u].mid = NoMid THEN MaxMsgs + u ELSE mailbox[u].mid
AllMids == 1..(MaxMsgs + MaxUids)

NoRaws == [u \in Uids |-> "none"]
EmptyStore == [k \in AllMids |-> NoTime]

(* TTLIdempotencyStore.seen: drop the keys whose expiry has passed, then  *)
(* test membership.                                                       *)
KeepExpired(store, t) == store
Cleanup(store, t) ==
    [k \in DOMAIN store |-> IF store[k] # NoTime /\ store[k] <= t THEN NoTime ELSE store[k]]
seen(store, k, t) == Cleanup(store, t)[k] # NoTime

(* TTLIdempotencyStore.mark *)
mark(store, k, t) == [store EXCEPT ![k] = t + IdempotencyTtl]

(* uids = (all_uids[::-1])[:limit]: the newest n of the unseen uids *)
NewestFirst(S, n) == {u \in S : Cardinality({w \in S : w > u}) < n}
Unseen == {u \in Uids : mailbox[u].flag = "unseen"}

(* The mail server files a mail, with or without a Message-ID header *)
Deliver(u, m) ==
    /\ mailbox[u].flag = "absent"
    /\ mailbox' = [mailbox EXCEPT ![u] = [mid |-> m, flag |-> "unseen"]]
    /\ UNCHANGED <<now, kind, syncVars, listener, processing_ids, max_retry_attempts, loops, inbox, cons, idempotency, raws, queueVars>>

(* _fetch_new_emails, then _store_raw_batch starts one _store_single_raw  *)
(* per fetched mail; the poll loop waits for all of them.                 *)
_fetch_new_emails ==
    /\ raws = NoRaws
    /\ Unseen # {}
    /\ raws' = [u \in Uids |->
                  IF u \in NewestFirst(Unseen, Max(1, MaxEmailsPerPoll))
                  THEN "check" ELSE "none"]
    /\ UNCHANGED <<now, kind, syncVars, listener, processing_ids, max_retry_attempts, loops, inbox, cons, mailbox, idempotency, queueVars>>

(* lines 437-439: if await self._idempotency.seen(p.id, mid): return *)
_store_single_raw_seen(u) ==
    /\ raws[u] = "check"
    /\ idempotency' = Cleanup(idempotency, now)
    /\ raws' = [raws EXCEPT ![u] =
                  IF seen(idempotency, MessageIdOf(u), now) THEN "done" ELSE "insert"]
    /\ UNCHANGED <<now, kind, syncVars, listener, processing_ids, max_retry_attempts, loops, inbox, cons, mailbox, queueVars>>

(* lines 458-476 and 482-484: db.add(rec); await db.commit(), which       *)
(* either stores the row or raises IntegrityError.                        *)
_store_single_raw_insert(u) ==
    /\ raws[u] = "insert"
    /\ Len(inbox) < MaxInserts
    /\ inbox' = InsertRow(inbox, MessageIdOf(u))
    /\ raws' = [raws EXCEPT ![u] =
                  IF UniqueViolation(inbox, MessageIdOf(u)) THEN "duplicate" ELSE "stored"]
    /\ UNCHANGED <<now, kind, syncVars, listener, processing_ids, max_retry_attempts, loops, cons, mailbox, idempotency, queueVars>>

(* A store task that would go on to flag the mail after a failed insert *)
store_fails_and_flags(u) ==
    /\ raws[u] = "insert"
    /\ raws' = [raws EXCEPT ![u] = "flag"]
    /\ UNCHANGED <<now, kind, syncVars, listener, processing_ids, max_retry_attempts, loops, inbox, cons, mailbox, idempotency, queueVars>>

(* A store task that marks the key of a mail whose insert failed *)
_store_single_raw_fails_marked(u) ==
    /\ raws[u] = "insert"
    /\ idempotency' = mark(idempotency, MessageIdOf(u), now)
    /\ raws' = [raws EXCEPT ![u] = "done"]
    /\ UNCHANGED <<now, kind, syncVars, listener, processing_ids, max_retry_attempts, loops, inbox, cons, mailbox, queueVars>>

(* lines 489-492: any other exception: rollback, the mail stays unseen *)
_store_single_raw_fails(u) ==
    /\ raws[u] = "insert"
    /\ raws' = [raws EXCEPT ![u] = "done"]
    /\ UNCHANGED <<now, kind, syncVars, listener, processing_ids, max_retry_attempts, loops, inbox, cons, mailbox, idempotency, queueVars>>

(* A store task that flags the mail only after it stored the row itself *)
_store_single_raw_mark_stored_only(u) ==
    /\ raws[u] \in {"stored", "duplicate"}
    /\ idempotency' = mark(idempotency, MessageIdOf(u), now)
    /\ raws' = [raws EXCEPT ![u] = IF raws[u] = "stored" THEN "flag" ELSE "done"]
    /\ UNCHANGED <<now, kind, syncVars, listener, processing_ids, max_retry_attempts, loops, inbox, cons, mailbox, queueVars>>

(* lines 478 and 485: await self._idempotency.mark(p.id, mid) *)
_store_single_raw_mark(u) ==
    /\ raws[u] \in {"stored", "duplicate"}
    /\ idempotency' = mark(idempotency, MessageIdOf(u), now)
    /\ raws' = [raws EXCEPT ![u] = "flag"]
    /\ UNCHANGED <<now, kind, syncVars, listener, processing_ids, max_retry_attempts, loops, inbox, cons, mailbox, queueVars>>

(* _mark_seen: +FLAGS (\Seen), or no connection / an exception swallowed *)
_mark_seen(u) ==
    /\ raws[u] = "flag"
    /\ \/ mailbox' = [mailbox EXCEPT ![u].flag = "seen"]
       \/ UNCHANGED mailbox
    /\ raws' = [raws EXCEPT ![u] = "done"]
    /\ UNCHANGED <<now, kind, syncVars, listener, processing_ids, max_retry_attempts, loops, inbox, cons, idempotency, queueVars>>

(* TTLIdempotencyStore.__init__: the store lives in the memory of the    *)
(* process, a restarted listener begins with an empty one.                *)
TTLIdempotencyStore_init ==
    /\ idempotency # EmptyStore
    /\ idempotency' = EmptyStore
    /\ UNCHANGED <<now, kind, syncVars, listener, processing_ids, max_retry_attempts, loops, inbox, cons, mailbox, raws, queueVars>>

(* asyncio.gather returns when every _store_single_raw has returned; the  *)
(* poll loop sleeps and fetches again.                                    *)
_store_raw_batch ==
    /\ raws # NoRaws
    /\ \A u \in Uids : raws[u] \in {"none", "done"}
    /\ raws' = NoRaws
    /\ UNCHANGED <<now, kind, syncVars, listener, processing_ids, max_retry_attempts, loops, inbox, cons, mailbox, idempotency, queueVars>>

----------------------------------------------------------------------------
(* WeCom KF producer: sync_kf_messages, called for every kf_msg_or_event  *)
(* callback; two calls may run at one time.                               *)

Syncs == {"k1", "k2"}
MaxIters == 2           \* max_iters of sync_kf_messages
KfBatchLimit == 1       \* batch_limit of sync_kf_messages

(* The messages the vendor holds for the KF account, oldest first: one    *)
(* per message id, and after the first a message without msgid. A cursor  *)
(* is the number of messages behind it, "" is 0.                          *)
KfMessages == [i \in 1..(MaxMsgs + 1) |-> IF i = 1 THEN 1 ELSE IF i = 2 THEN NoMid ELSE i - 1]

IdleSync == [pc |-> "idle", cursor |-> 0, page |-> 0]

(* wecom_kf_sync_msg(access_token, open_kf_id, cursor, limit): msg_list,  *)
(* next_cursor and has_more of the answer.                                *)
next_cursor(cursor) ==
    IF cursor + KfBatchLimit > Len(KfMessages) THEN Len(KfMessages) ELSE cursor + KfBatchLimit
msg_list(cursor) == SubSeq(KfMessages, cursor + 1, next_cursor(cursor))
has_more(cursor) == next_cursor(cursor) < Len(KfMessages)

(* lines 544-566: try_store_wecom_inbox for every message of the page     *)
(* that has a msgid; failed holds the ids whose commit raises an error    *)
(* other than IntegrityError.                                             *)
RECURSIVE StorePage(_, _, _)
StorePage(rows, msgs, failed) ==
    IF msgs = <<>> THEN rows
    ELSE LET m == Head(msgs)
         IN StorePage(IF m = NoMid \/ m \in failed THEN rows ELSE InsertRow(rows, m),
                      Tail(msgs), failed)

(* lines 513-528: the access token, then cursor = redis.get(key) or "",   *)
(* "" as well when the read fails.                                        *)
sync_kf_messages(k) ==
    /\ syncs[k].pc = "idle"
    /\ \E cursor \in {kf_cursor, 0} :
          syncs' = [syncs EXCEPT ![k] = [pc |-> "page", cursor |-> cursor, page |-> 1]]
    /\ UNCHANGED <<now, kind, kf_cursor, listener, processing_ids, max_retry_attempts, loops, inbox, cons, ingestVars, queueVars>>

(* lines 530-585, one turn of `for page in range(1, max_iters + 1)`: the  *)
(* call fails or answers an errcode (break); or the messages are stored,  *)
(* the cursor is set to next_cursor and written to Redis (a failed write  *)
(* is logged only), and the loop goes on while has_more.                  *)
sync_kf_messages_page(k) ==
    LET cursor == syncs[k].cursor
        next == next_cursor(cursor)
    IN /\ syncs[k].pc = "page"
       /\ \/ /\ syncs' = [syncs EXCEPT ![k] = IdleSync]
             /\ UNCHANGED <<inbox, kf_cursor>>
          \/ /\ \E failed \in SUBSET (Range(msg_list(cursor)) \ {NoMid}) :
                   inbox' = StorePage(inbox, msg_list(cursor), failed)
             /\ \/ kf_cursor' = next
                \/ UNCHANGED kf_cursor
             /\ syncs' = [syncs EXCEPT ![k] =
                   IF ~has_more(cursor) \/ syncs[k].page = MaxIters
                   THEN IdleSync
                   ELSE [pc |-> "page", cursor |-> next, page |-> syncs[k].page + 1]]
       /\ UNCHANGED <<now, kind, listener, processing_ids, max_retry_attempts, loops, cons, ingestVars, queueVars>>

----------------------------------------------------------------------------
(* Mailbox supervisor: EmailChannelListener._supervisor_loop keeps one    *)
(* _poll_platform task per active email platform.                         *)

PlatformIds == {"p1", "p2", "p3"}

(* __init__, lines 110-111: _stop_event clear, _tasks empty; pollers is   *)
(* the number of _poll_platform tasks of a platform that have not ended,  *)
(* platforms and to_cancel are the locals of the supervisor.              *)
NewListener ==
    [stop_event |-> FALSE, tasks |-> {}, pollers |-> [p \in PlatformIds |-> 0],
     supervisor |-> "wait", platforms |-> {}, to_cancel |-> {}]

(* task.cancel(); await task: the task ends unless it has ended already *)
Cancelled(pollers, ids) ==
    [p \in PlatformIds |-> IF p \in ids /\ pollers[p] > 0 THEN pollers[p] - 1 ELSE pollers[p]]

(* lines 137-139: the loop test and _load_active_email_platforms *)
_supervisor_loop(platforms) ==
    /\ listener.supervisor = "wait"
    /\ ~listener.stop_event
    /\ listener' = [listener EXCEPT !.supervisor = "reconcile", !.platforms = platforms]
    /\ UNCHANGED <<now, kind, syncVars, processing_ids, max_retry_attempts, loops, inbox, cons, ingestVars, queueVars>>

(* A reconciliation that starts the pollers of new platforms only *)
_reconcile_platform_tasks_starting_only ==
    LET current_ids == listener.tasks
        new_ids == listener.platforms
        to_start == new_ids \ current_ids
    IN /\ listener.supervisor = "reconcile"
       /\ listener' = [listener EXCEPT
             !.supervisor = "wait",
             !.to_cancel = {},
             !.tasks = current_ids \cup to_start,
             !.pollers = [p \in PlatformIds |-> IF p \in to_start THEN @[p] + 1 ELSE @[p]]]
       /\ UNCHANGED <<now, kind, syncVars, processing_ids, max_retry_attempts, loops, inbox, cons, ingestVars, queueVars>>

(* _reconcile_platform_tasks, lines 171-190 *)
_reconcile_platform_tasks ==
    LET current_ids == listener.tasks
        new_ids == listener.platforms
        to_start == new_ids \ current_ids
        to_cancel == current_ids \ new_ids
    IN /\ listener.supervisor = "reconcile"
       /\ listener' = [listener EXCEPT
             !.supervisor = "wait",
             !.to_cancel = to_cancel,
             !.tasks = (current_ids \cup to_start) \ to_cancel,
             !.pollers = Cancelled([p \in PlatformIds |->
                                      IF p \in to_start THEN @[p] + 1 ELSE @[p]],
                                   to_cancel)]
       /\ UNCHANGED <<now, kind, syncVars, processing_ids, max_retry_attempts, loops, inbox, cons, ingestVars, queueVars>>

(* stop, line 153 *)
stop_listener ==
    /\ ~listener.stop_event
    /\ listener' = [listener EXCEPT !.stop_event = TRUE]
    /\ UNCHANGED <<now, kind, syncVars, processing_ids, max_retry_attempts, loops, inbox, cons, ingestVars, queueVars>>

(* _poll_platform, line 346: `while not self._stop_event.is_set()` ends   *)
(* the poller of platform p, whose task stays in _tasks.                  *)
_poll_platform_returns(p) ==
    /\ listener.stop_event
    /\ listener.pollers[p] > 0
    /\ listener' = [listener EXCEPT !.pollers[p] = @ - 1]
    /\ UNCHANGED <<now, kind, syncVars, processing_ids, max_retry_attempts, loops, inbox, cons, ingestVars, queueVars>>

(* lines 149-150 and 195-201: the loop test fails, every task of _tasks   *)
(* is popped, cancelled and awaited.                                      *)
_cancel_all_platform_tasks ==
    /\ listener.supervisor = "wait"
    /\ listener.stop_event
    /\ listener' = [listener EXCEPT
          !.supervisor = "ended",
          !.to_cancel = listener.tasks,
          !.tasks = {},
          !.pollers = Cancelled(@, listener.tasks)]
    /\ UNCHANGED <<now, kind, syncVars, processing_ids, max_retry_attempts, loops, inbox, cons, ingestVars, queueVars>>

----------------------------------------------------------------------------
(* Waiting queue of tgo-api: one project, one server process. Every       *)
(* coroutine has its own database session; a commit writes the columns    *)
(* the session changed on its copy and is atomic.                         *)

Visitors == {"v1", "v2"}
Staffs == {"s1", "s2"}
Project == "p1"
NoStaff == "none"
NoVisitor == "none"

Requests == {"r1", "r2"}     \* inbound chat requests that may enqueue
Sweeps == {"w1", "w2"}       \* callers of the reactive trigger
QTasks == Requests \cup Sweeps \cup {"fallback", "accept"}

IdleTask ==
    [pc |-> "idle", cands |-> <<>>, idx |-> 0, copies |-> NoSnap, at |-> NoTime,
     visitor |-> NoVisitor, vcopy |-> "none", staff |-> NoStaff]

(* VisitorWaitingQueue(...) of add_visitor_to_waiting_queue, lines 165-178 *)
NewEntry(v, pos, t) ==
    [visitor_id |-> v, status |-> "waiting", priority |-> 1, position |-> pos,
     expired_at |-> t + QueueTimeout, last_attempt_at |-> NoTime,
     assigned_staff_id |-> NoStaff]

(* Methods of the VisitorWaitingQueue and Visitor models *)
record_attempt(copy, t) == [copy EXCEPT !.last_attempt_at = t]
assign_to_staff(copy, s) == [copy EXCEPT !.status = "assigned", !.assigned_staff_id = s]
expire(copy) == [copy EXCEPT !.status = "expired"]
cancel(copy) == [copy EXCEPT !.status = "cancelled"]
is_unassigned(status) == status \in {"new", "closed"}

EntryIds == 1..Len(entries)
Waiting(tbl) == {e \in 1..Len(tbl) : tbl[e].status = "waiting"}

(* (expired_at IS NULL) | (expired_at > now()) *)
NotExpired(row, t) == row.expired_at = NoTime \/ row.expired_at > t

(* expired_at IS NOT NULL AND expired_at < now() *)
PastExpiry(row, t) == row.expired_at # NoTime /\ row.expired_at < t

(* order_by(priority.desc(), position.asc()) *)
QueueKeyByPosition(e) == entries[e].position
QueueKey(e) ==
    (0 - entries[e].priority) * (MaxEntries + MaxOrderEntries + 1) + entries[e].position

(* lines 133-137: the visitor's waiting entries of the project *)
no_existing_queue(v) == {}
existing_queue(v) == {e \in Waiting(entries) : entries[e].visitor_id = v}

(* lines 148-152: count of the waiting entries of the project, plus one *)
queue_position == Cardinality(Waiting(entries)) + 1

(* line 60: project_id in _processing_project_ids *)
never_processing(p) == FALSE
already_processing(p) == p \in processing

(* async with semaphore of queue_trigger_service: held by the sweeps and  *)
(* the immediate attempts that are inside their transfer.                 *)
SemaphoreFree ==
    Cardinality({t \in Requests \cup Sweeps : qtasks[t].pc = "transfer"})
        < QueueProcessMaxWorkers

(* async with semaphore of process_waiting_queue: a semaphore of its own, *)
(* held by the project groups of the fallback sweep.                      *)
FallbackSemaphoreFree ==
    Cardinality({t \in {"fallback"} : qtasks[t].pc = "transfer"})
        < QueueProcessMaxWorkers

(* The batch of the reactive sweep, lines 108-125 *)
SweepBatches ==
    {Take(q, QueueProcessBatchSize) :
        q \in SortedSeqs({e \in Waiting(entries) : NotExpired(entries[e], now)},
                        [e \in EntryIds |-> QueueKey(e)])}

(* The batch of the fallback sweep, lines 73-94 *)
FallbackBatches ==
    {Take(q, QueueProcessBatchSize) :
        q \in SortedSeqs({e \in Waiting(entries) :
                            /\ NotExpired(entries[e], now)
                            /\ \/ entries[e].last_attempt_at = NoTime
                               \/ entries[e].last_attempt_at < now - QueueFallbackInterval},
                         [e \in EntryIds |-> QueueKey(e)])}

CopiesOf(tbl, ids) == [e \in ids |-> tbl[e]]

(* First candidate from index i on that the re-read still finds waiting *)
RECURSIVE NextWaiting(_, _, _)
NextWaiting(cands, i, tbl) ==
    IF i > Len(cands) THEN 0
    ELSE IF tbl[cands[i]].status = "waiting" THEN i
    ELSE NextWaiting(cands, i + 1, tbl)

(* The results transfer_to_staff may return, or "raise" *)
TransferResults == {"assigned", "no_staff", "raise"}

(* entry.assign_to_staff(...); db.commit() on the session's copy *)
CommitAssigned(t, e, s) ==
    LET old == qtasks[t].copies[e]
        new == assign_to_staff(record_attempt(old, qtasks[t].at), s)
    IN [entries EXCEPT ![e] = Flush(entries[e], old, new)]

(* A commit of the attempt record that would also take the entry out of  *)
(* waiting                                                                *)
CommitAttemptAndCancel(t, e) ==
    LET old == qtasks[t].copies[e]
    IN [entries EXCEPT ![e] = Flush(entries[e], old, cancel(record_attempt(old, qtasks[t].at)))]

(* db.commit() of the attempt record alone *)
CommitAttempt(t, e) ==
    LET old == qtasks[t].copies[e]
    IN [entries EXCEPT ![e] = Flush(entries[e], old, record_attempt(old, qtasks[t].at))]

CurrentEntry(t) == qtasks[t].cands[qtasks[t].idx]

(* Candidate a sweep goes on with after an attempt that found no staff,   *)
(* where i would be its next one: none, the for loop is left by break.    *)
ContinueAfterNoStaff(i) == i
NextAfterNoStaff(i) == 0

(* Coroutines that have started and not yet returned *)
InFlightTasks == {t \in QTasks : qtasks[t].pc # "idle"}
CanStart == Cardinality(InFlightTasks) < MaxConcurrent

(* get_or_create_visitor, lines 49-74: the request loads the visitor; a   *)
(* closed visitor is reset to new and committed.                          *)
LoadVisitor(r, v) ==
    /\ qtasks[r].pc = "idle"
    /\ CanStart
    /\ LET st == IF visitors[v] = "closed" THEN "new" ELSE visitors[v]
       IN /\ visitors' = [visitors EXCEPT ![v] = st]
          /\ qtasks' = [qtasks EXCEPT ![r] =
                          [IdleTask EXCEPT !.pc = "loaded", !.visitor = v, !.vcopy = st]]

get_or_create_visitor(r, v) ==
    /\ LoadVisitor(r, v)
    /\ UNCHANGED <<now, kind, syncVars, listener, processing_ids, max_retry_attempts, loops, inbox, cons, ingestVars, entries, processing>>

(* The AddToQueueResult that add_visitor_to_waiting_queue returns for the *)
(* visitor object vcopy of visitor v: line 126, line 140, line 213.       *)
NoEntry == 0
EnqueueResult(success, position, id, already, cannot, status) ==
    [success |-> success, queue_position |-> position, queue_entry_id |-> id,
     already_in_queue |-> already, cannot_enter |-> cannot, current_status |-> status]

AddToQueueResultUnchecked(vcopy, v) ==
    IF existing_queue(v) # {}
    THEN LET e == CHOOSE x \in existing_queue(v) : TRUE
         IN EnqueueResult(TRUE, entries[e].position, e, TRUE, FALSE, "none")
    ELSE EnqueueResult(TRUE, queue_position, Len(entries) + 1, FALSE, FALSE, "none")

AddToQueueResult(vcopy, v) ==
    IF ~is_unassigned(vcopy)
    THEN EnqueueResult(FALSE, 0, NoEntry, FALSE, TRUE, vcopy)
    ELSE IF existing_queue(v) # {}
    THEN LET e == CHOOSE x \in existing_queue(v) : TRUE
         IN EnqueueResult(TRUE, entries[e].position, e, TRUE, FALSE, "none")
    ELSE EnqueueResult(TRUE, queue_position, Len(entries) + 1, FALSE, FALSE, "none")

(* add_visitor_to_waiting_queue, lines 125-185: no await between the      *)
(* checks, the insert and the commit.                                     *)
add_visitor_to_waiting_queue(r, trigger_processing) ==
    /\ qtasks[r].pc = "loaded"
    /\ LET v == qtasks[r].visitor
           result == AddToQueueResult(qtasks[r].vcopy, v)
       IN IF result.cannot_enter \/ result.already_in_queue
          THEN /\ qtasks' = [qtasks EXCEPT ![r] = IdleTask]
               /\ UNCHANGED <<entries, visitors>>
          ELSE /\ Len(entries) < MaxEntries
               /\ entries' = Append(entries, NewEntry(v, result.queue_position, now))
               /\ visitors' = [visitors EXCEPT ![v] = "queued"]
               /\ qtasks' = [qtasks EXCEPT ![r] =
                     IF trigger_processing
                     THEN [@ EXCEPT !.pc = "immediate", !.cands = <<Len(entries) + 1>>,
                                    !.idx = 1]
                     ELSE IdleTask]
    /\ UNCHANGED <<now, kind, syncVars, listener, processing_ids, max_retry_attempts, loops, inbox, cons, ingestVars, processing>>

(* An immediate attempt that reads the entry by id alone *)
trigger_queue_for_entry_by_id(r) ==
    /\ qtasks[r].pc = "immediate"
    /\ SemaphoreFree
    /\ qtasks' = [qtasks EXCEPT ![r] =
          [@ EXCEPT !.pc = "transfer", !.copies = CopiesOf(entries, {CurrentEntry(r)}),
                    !.at = now]]
    /\ UNCHANGED <<now, kind, syncVars, listener, processing_ids, max_retry_attempts, loops, inbox, cons, ingestVars, entries, visitors, processing>>

(* trigger_queue_for_entry, lines 225-244: the entry is read by id and    *)
(* status, the attempt is recorded, transfer_to_staff is awaited.         *)
trigger_queue_for_entry(r) ==
    /\ qtasks[r].pc = "immediate"
    /\ SemaphoreFree
    /\ LET e == CurrentEntry(r)
       IN IF entries[e].status = "waiting"
          THEN qtasks' = [qtasks EXCEPT ![r] =
                  [@ EXCEPT !.pc = "transfer", !.copies = CopiesOf(entries, {e}), !.at = now]]
          ELSE qtasks' = [qtasks EXCEPT ![r] = IdleTask]
    /\ UNCHANGED <<now, kind, syncVars, listener, processing_ids, max_retry_attempts, loops, inbox, cons, ingestVars, entries, visitors, processing>>

(* trigger_queue_for_entry, lines 246-281: transfer_to_staff returns *)
trigger_queue_for_entry_result(r) ==
    /\ qtasks[r].pc = "transfer"
    /\ LET e == CurrentEntry(r)
       IN \E res \in TransferResults :
            \/ /\ res = "assigned"
               /\ \E s \in Staffs : entries' = CommitAssigned(r, e, s)
               /\ visitors' = [visitors EXCEPT ![entries[e].visitor_id] = "active"]
            \/ /\ res = "no_staff"
               /\ entries' = CommitAttempt(r, e)
               /\ UNCHANGED visitors
            \/ /\ res = "raise"
               /\ UNCHANGED <<entries, visitors>>
    /\ qtasks' = [qtasks EXCEPT ![r] = IdleTask]
    /\ UNCHANGED <<now, kind, syncVars, listener, processing_ids, max_retry_attempts, loops, inbox, cons, ingestVars, processing>>

(* trigger_queue_for_project, lines 59-67: a call that finds the project  *)
(* in _processing_project_ids returns and leaves the state as it is.      *)
trigger_queue_for_project(w) ==
    /\ qtasks[w].pc = "idle"
    /\ IF already_processing(Project)
       THEN UNCHANGED <<processing, qtasks>>
       ELSE /\ CanStart
            /\ processing' = processing \cup {Project}
            /\ qtasks' = [qtasks EXCEPT ![w].pc = "scheduled"]
    /\ UNCHANGED <<now, kind, syncVars, listener, processing_ids, max_retry_attempts, loops, inbox, cons, ingestVars, entries, visitors>>

SweepEndsInProgress(w) ==
    /\ UNCHANGED processing
    /\ qtasks' = [qtasks EXCEPT ![w] = IdleTask]

(* The sweep ends: finally: _processing_project_ids.discard(project_id) *)
SweepEnds(w) ==
    /\ processing' = processing \ {Project}
    /\ qtasks' = [qtasks EXCEPT ![w] = IdleTask]

(* The for loop of a sweep moves to candidate i of its batch (0: none     *)
(* left) with the session's copies as given, and records the attempt.     *)
SweepMoves(w, i, copies) ==
    IF i = 0
    THEN SweepEnds(w)
    ELSE /\ qtasks' = [qtasks EXCEPT ![w] =
                [@ EXCEPT !.pc = "transfer", !.idx = i, !.copies = copies, !.at = now]]
         /\ UNCHANGED processing

(* _process_project_queue_internal, lines 101-142: the batch is selected  *)
(* under the semaphore and the first attempt is started.                  *)
_process_project_queue_internal(w) ==
    /\ qtasks[w].pc = "scheduled"
    /\ SemaphoreFree
    /\ \E batch \in SweepBatches :
         IF batch = <<>>
         THEN SweepEnds(w)
         ELSE /\ qtasks' = [qtasks EXCEPT ![w] =
                    [@ EXCEPT !.pc = "transfer", !.cands = batch, !.idx = 1,
                              !.copies = CopiesOf(entries, Range(batch)), !.at = now]]
              /\ UNCHANGED processing
    /\ UNCHANGED <<now, kind, syncVars, listener, processing_ids, max_retry_attempts, loops, inbox, cons, ingestVars, entries, visitors>>

(* _process_project_queue_internal, lines 103-205: an exception of the   *)
(* session or the query, or the cancellation of the task while it waits   *)
(* for the semaphore or for transfer_to_staff, leaves through the finally *)
(* blocks: the session is closed without a commit.                        *)
_process_project_queue_internal_raises(w) ==
    /\ qtasks[w].pc \in {"scheduled", "transfer"}
    /\ SweepEnds(w)
    /\ UNCHANGED <<now, kind, syncVars, listener, processing_ids, max_retry_attempts, loops, inbox, cons, ingestVars, entries, visitors>>

(* _process_project_queue_internal, lines 142-187: transfer_to_staff      *)
(* returns; commit, then the next entry of the batch or the end. After a  *)
(* commit the session keeps its copies or expires them, as the session    *)
(* factory is configured; a rollback expires them.                        *)
_process_project_queue_internal_result(w) ==
    /\ qtasks[w].pc = "transfer"
    /\ LET e == CurrentEntry(w)
           i == IF qtasks[w].idx < Len(qtasks[w].cands) THEN qtasks[w].idx + 1 ELSE 0
       IN \E res \in TransferResults :
            \/ /\ res = "assigned"
               /\ \E s \in Staffs : entries' = CommitAssigned(w, e, s)
               /\ visitors' = [visitors EXCEPT ![entries[e].visitor_id] = "active"]
               /\ \E expire_on_commit \in BOOLEAN :
                    SweepMoves(w, i, IF expire_on_commit
                                     THEN CopiesOf(entries', DOMAIN qtasks[w].copies)
                                     ELSE qtasks[w].copies)
            \/ /\ res = "no_staff"
               /\ entries' = CommitAttempt(w, e)
               /\ UNCHANGED visitors
               /\ SweepMoves(w, NextAfterNoStaff(i), CopiesOf(entries', DOMAIN qtasks[w].copies))
            \/ /\ res = "raise"
               /\ UNCHANGED <<entries, visitors>>
               /\ SweepMoves(w, i, CopiesOf(entries, DOMAIN qtasks[w].copies))
    /\ UNCHANGED <<now, kind, syncVars, listener, processing_ids, max_retry_attempts, loops, inbox, cons, ingestVars>>

(* The fallback sweep re-reads candidate i (0: none left) *)
(* and after the candidates, lines 209-211: _processing_ids.discard(e.id)  *)
(* for the entries of the batch.                                          *)
FallbackMoves(i, tbl) ==
    IF i = 0
    THEN /\ qtasks' = [qtasks EXCEPT !["fallback"] = IdleTask]
         /\ processing_ids' = processing_ids \ Range(qtasks["fallback"].cands)
    ELSE /\ qtasks' = [qtasks EXCEPT !["fallback"] =
               [@ EXCEPT !.pc = "transfer", !.idx = i,
                         !.copies = CopiesOf(tbl, {qtasks["fallback"].cands[i]}), !.at = now]]
         /\ UNCHANGED processing_ids

(* _process_fallback_batch, lines 67-123: the batch of waiting entries    *)
(* not attempted within the fallback interval, less the entries whose id  *)
(* is in _processing_ids (lines 101-108); the ids of the rest are added.  *)
_process_fallback_batch ==
    /\ qtasks["fallback"].pc = "idle"
    /\ CanStart
    /\ \E batch \in FallbackBatches :
         LET entries_to_process == SelectSeq(batch, LAMBDA e : e \notin processing_ids)
         IN /\ entries_to_process # <<>>
            /\ processing_ids' = processing_ids \cup Range(entries_to_process)
            /\ qtasks' = [qtasks EXCEPT !["fallback"] =
                  [IdleTask EXCEPT !.pc = "refetch", !.cands = entries_to_process, !.idx = 1]]
    /\ UNCHANGED <<now, kind, syncVars, listener, max_retry_attempts, loops, inbox, cons, ingestVars, entries, visitors, processing>>

(* process_project_entries, lines 130-153: the re-read of the entry by id *)
(* and status, the attempt record, the await of transfer_to_staff.        *)
process_project_entries(t) ==
    /\ t = "fallback"
    /\ qtasks[t].pc = "refetch"
    /\ FallbackSemaphoreFree
    /\ FallbackMoves(NextWaiting(qtasks[t].cands, 1, entries), entries)
    /\ UNCHANGED <<now, kind, syncVars, listener, max_retry_attempts, loops, inbox, cons, ingestVars, entries, visitors, processing>>

(* process_project_entries, lines 153-189: transfer_to_staff returns *)
process_project_entries_result(t) ==
    /\ t = "fallback"
    /\ qtasks[t].pc = "transfer"
    /\ LET e == CurrentEntry(t)
       IN \E res \in TransferResults :
            \/ /\ res = "assigned"
               /\ \E s \in Staffs : entries' = CommitAssigned(t, e, s)
               /\ visitors' = [visitors EXCEPT ![entries[e].visitor_id] = "active"]
               /\ FallbackMoves(NextWaiting(qtasks[t].cands, qtasks[t].idx + 1, entries'),
                                entries')
            \/ /\ res = "no_staff"
               /\ entries' = CommitAttempt(t, e)
               /\ UNCHANGED visitors
               /\ FallbackMoves(NextAfterNoStaff(NextWaiting(qtasks[t].cands,
                                                            qtasks[t].idx + 1, entries')),
                                entries')
            \/ /\ res = "raise"
               /\ UNCHANGED <<entries, visitors>>
               /\ FallbackMoves(NextWaiting(qtasks[t].cands, qtasks[t].idx + 1, entries),
                                entries)
    /\ UNCHANGED <<now, kind, syncVars, listener, max_retry_attempts, loops, inbox, cons, ingestVars, processing>>

(* stop_queue_tasks, lines 359-383, while a fallback batch is in flight:  *)
(* _fallback_task.cancel() raises CancelledError at the await the batch   *)
(* is suspended at; it is no Exception, so the batch is left through the  *)
(* finally blocks alone, which close the sessions (lines 190, 224). A     *)
(* later start_queue_tasks starts a new _fallback_loop.                   *)
stop_queue_tasks ==
    /\ qtasks["fallback"].pc # "idle"
    /\ qtasks' = [qtasks EXCEPT !["fallback"] = IdleTask]
    /\ UNCHANGED <<now, kind, syncVars, listener, processing_ids, max_retry_attempts, loops, inbox, cons, ingestVars, entries, visitors, processing>>

(* accept_visitor, lines 322-346: the visitor's latest waiting entry in   *)
(* the project of the staff member current_user; HTTP 404 and no change   *)
(* when there is none.                                                    *)
accept_visitor(v, current_user) ==
    /\ qtasks["accept"].pc = "idle"
    /\ CanStart
    /\ IF existing_queue(v) = {}
       THEN UNCHANGED qtasks
       ELSE LET e == CHOOSE x \in existing_queue(v) : \A y \in existing_queue(v) : y <= x
            IN qtasks' = [qtasks EXCEPT !["accept"] =
                  [IdleTask EXCEPT !.pc = "transfer", !.cands = <<e>>, !.idx = 1,
                                   !.copies = CopiesOf(entries, {e}),
                                   !.staff = current_user]]
    /\ UNCHANGED <<now, kind, syncVars, listener, processing_ids, max_retry_attempts, loops, inbox, cons, ingestVars, entries, visitors, processing>>

(* An accept that marks the entry assigned without the staff member *)
accept_visitor_result_without_staff ==
    /\ qtasks["accept"].pc = "transfer"
    /\ LET e == CurrentEntry("accept")
           old == qtasks["accept"].copies[e]
           new == [old EXCEPT !.status = "assigned"]
       IN \/ /\ entries' = [entries EXCEPT ![e] = Flush(entries[e], old, new)]
             /\ visitors' = [visitors EXCEPT ![entries[e].visitor_id] = "active"]
          \/ UNCHANGED <<entries, visitors>>
    /\ qtasks' = [qtasks EXCEPT !["accept"] = IdleTask]
    /\ UNCHANGED <<now, kind, syncVars, listener, processing_ids, max_retry_attempts, loops, inbox, cons, ingestVars, processing>>

(* accept_visitor, lines 346-369: transfer_to_staff with target_staff_id  *)
(* returns; failure is HTTP 400, success assigns the entry and commits.   *)
accept_visitor_result ==
    /\ qtasks["accept"].pc = "transfer"
    /\ LET e == CurrentEntry("accept")
           old == qtasks["accept"].copies[e]
           new == assign_to_staff(old, qtasks["accept"].staff)
       IN \/ /\ entries' = [entries EXCEPT ![e] = Flush(entries[e], old, new)]
             /\ visitors' = [visitors EXCEPT ![entries[e].visitor_id] = "active"]
          \/ UNCHANGED <<entries, visitors>>
    /\ qtasks' = [qtasks EXCEPT !["accept"] = IdleTask]
    /\ UNCHANGED <<now, kind, syncVars, listener, processing_ids, max_retry_attempts, loops, inbox, cons, ingestVars, processing>>

(* lines 254-263: the waiting entries past their deadline, .limit(100),   *)
(* in no stated order: any 100 of them when there are more.               *)
CleanupBatchLimit == 100
expired_entries ==
    LET overdue == {e \in Waiting(entries) : PastExpiry(entries[e], now)}
    IN IF Cardinality(overdue) <= CleanupBatchLimit
       THEN {overdue}
       ELSE {b \in SUBSET overdue : Cardinality(b) = CleanupBatchLimit}

(* _cleanup_expired_entries, lines 252-306: no await inside; each entry   *)
(* of the batch is expired and its queued visitor closed.                 *)
_cleanup_expired_entries ==
    \E due \in expired_entries :
       /\ due # {}
       /\ entries' = [e \in EntryIds |-> IF e \in due THEN expire(entries[e]) ELSE entries[e]]
       /\ visitors' = [v \in DOMAIN visitors |->
                         IF visitors[v] = "queued" /\ \E e \in due : entries[e].visitor_id = v
                         THEN "closed" ELSE visitors[v]]
       /\ UNCHANGED <<now, kind, syncVars, listener, processing_ids, max_retry_attempts, loops, inbox, cons, ingestVars, processing, qtasks>>

(* cancel_queue_entry, lines 417-432: the response to a cancel request on *)
(* entry id e: HTTP 404 for an unknown id, HTTP 400 for an entry that is   *)
(* not waiting, else success.                                              *)
cancel_response(tbl, e) ==
    IF e \notin 1..Len(tbl) THEN "404 not found"
    ELSE IF tbl[e].status # "waiting" THEN "400 bad request"
    ELSE "200 ok"

(* cancel_queue_entry, lines 417-439: an HTTPException leaves the table   *)
(* as it is, else the entry is cancelled and committed.                   *)
cancel_queue_entry(e) ==
    /\ entries' = IF cancel_response(entries, e) = "200 ok"
                  THEN [entries EXCEPT ![e] = cancel(entries[e])]
                  ELSE entries
    /\ UNCHANGED <<now, kind, syncVars, listener, processing_ids, max_retry_attempts, loops, inbox, cons, ingestVars, visitors, processing, qtasks>>

(* The background loops: the consumer loop of a channel listener         *)
(* (DingTalk, Feishu, WeCom, WuKongIM alike), the consumer loop of the     *)
(* email listener, and the fallback and cleanup loops of the queue.       *)
Loops == {"channel", "email", "fallback", "cleanup"}

DefaultPollInterval == 5    \* consumer_poll_interval_seconds, and "else 5"
SupervisorSleep == 5        \* await asyncio.sleep(5) of the outer except
EmailConsumerSleep == 2     \* await asyncio.sleep(2)
QueueCleanupInterval == 1   \* settings.QUEUE_CLEANUP_INTERVAL_SECONDS
NoInterval == 0 - 1         \* no platform loaded

RunningLoop == [pc |-> "cycle", outcome |-> "none", config |-> NoInterval, slept |-> 0]

(* max(1, int(interval)) *)
AtLeastOne(x) == IF x < 1 THEN 1 ELSE x

(* The sleep of loop l after a cycle that returned; c is the              *)
(* consumer_poll_interval_seconds of the first active platform, or        *)
(* NoInterval when there is none.                                         *)
SleepAfterCycle(l, c) ==
    CASE l = "channel" -> AtLeastOne(IF c = NoInterval THEN DefaultPollInterval ELSE c)
      [] l = "email" -> EmailConsumerSleep
      [] l = "fallback" -> AtLeastOne(QueueFallbackInterval)
      [] l = "cleanup" -> AtLeastOne(QueueCleanupInterval)

(* The sleep of loop l after a cycle whose exception reached the loop *)
RetryAtOnce(l) == 0
SleepAfterError(l) ==
    CASE l = "channel" -> SupervisorSleep
      [] l = "email" -> EmailConsumerSleep
      [] l = "fallback" -> AtLeastOne(QueueFallbackInterval)
      [] l = "cleanup" -> AtLeastOne(QueueCleanupInterval)

(* One cycle of loop l: it returns, or an exception escapes it (the load  *)
(* of the platforms, the selection of the entries) and is caught by the   *)
(* except Exception of the loop; either way the loop goes to sleep.       *)
loop_cycle(l) ==
    /\ loops[l].pc = "cycle"
    /\ \E c \in IF l = "channel"
                THEN {NoInterval, 1, DefaultPollInterval, DefaultPollInterval + 1}
                ELSE {NoInterval} :
         \/ loops' = [loops EXCEPT ![l] =
               [pc |-> "sleep", outcome |-> "returned", config |-> c,
                slept |-> SleepAfterCycle(l, c)]]
         \/ loops' = [loops EXCEPT ![l] =
               [pc |-> "sleep", outcome |-> "raised", config |-> c,
                slept |-> SleepAfterError(l)]]
    /\ UNCHANGED <<now, kind, syncVars, listener, processing_ids, max_retry_attempts, inbox, cons, ingestVars, queueVars>>

(* The sleep is over: the while condition holds and the next cycle begins *)
loop_wakes(l) ==
    /\ loops[l].pc = "sleep"
    /\ loops' = [loops EXCEPT ![l] = RunningLoop]
    /\ UNCHANGED <<now, kind, syncVars, listener, processing_ids, max_retry_attempts, inbox, cons, ingestVars, queueVars>>

(* stop() of a listener, stop_queue_tasks(): the task is cancelled *)
loop_cancelled(l) ==
    /\ loops[l].pc # "ended"
    /\ loops' = [loops EXCEPT ![l] = [RunningLoop EXCEPT !.pc = "ended", !.outcome = "cancelled"]]
    /\ UNCHANGED <<now, kind, syncVars, listener, processing_ids, max_retry_attempts, inbox, cons, ingestVars, queueVars>>

Tick ==
    /\ now < MaxTime
    /\ now' = now + 1
    /\ UNCHANGED <<kind, syncVars, listener, processing_ids, max_retry_attempts, loops, inbox, cons, ingestVars, queueVars>>

----------------------------------------------------------------------------
(* The ledger with its producer and its consumer instances *)

Init ==
    /\ now = 0
    /\ kind \in Kinds
    /\ loops = [l \in Loops |-> RunningLoop]
    /\ max_retry_attempts = MaxRetryAttempts
    /\ kf_cursor = 0
    /\ syncs = [k \in Syncs |-> IdleSync]
    /\ listener = NewListener
    /\ processing_ids = {}
    /\ inbox = <<>>
    /\ cons = [c \in Consumers |-> IdleConsumer]
    /\ mailbox = [u \in Uids |-> NoMail]
    /\ idempotency = EmptyStore
    /\ raws = NoRaws
    /\ entries = <<>>
    /\ visitors = [v \in Visitors |-> "new"]
    /\ processing = {}
    /\ qtasks = [t \in QTasks |-> IdleTask]

(* The ledger of one consumer family *)
InitLocked == Init /\ kind = "skip_locked"
InitPlain == Init /\ kind = "plain"

ConsumerStep(c) ==
    \/ _select_candidates_pending(c)
    \/ _select_candidates_failed(c)
    \/ _claim_record(c)
    \/ ClaimFails(c)
    \/ _finalize_success(c)
    \/ _finalize_failure(c)
    \/ SuccessCommitFails(c)
    \/ FailureCommitFails(c)

NextLedger ==
    \/ \E m \in Mids : try_store_wecom_inbox(m)
    \/ \E c \in Consumers : ConsumerStep(c)
    \/ \E c \in Consumers : stop(c)
    \/ \E c \in Consumers : start(c)
    \/ Tick

(* Both consumer families, with commit failures and stop / start *)
LedgerSpec == Init /\ [][NextLedger]_vars

(* The DingTalk / Feishu / WeCom family alone: SELECT ... FOR UPDATE SKIP *)
(* LOCKED, claim and finalize commits guarded by try / except.            *)
LockedSpec == InitLocked /\ [][NextLedger]_vars

(* Fault-free operation of the skip-locked family: no commit raises and   *)
(* no consumer is stopped.                                                *)
SteadyStep(c) ==
    \/ _select_candidates_pending(c)
    \/ _select_candidates_failed(c)
    \/ _claim_record(c)
    \/ _finalize_success(c)
    \/ _finalize_failure(c)

NextSteady ==
    \/ \E m \in Mids : try_store_wecom_inbox(m)
    \/ \E c \in Consumers : SteadyStep(c)
    \/ Tick

SteadySpec == InitLocked /\ [][NextSteady]_vars

(* The same ledger with a single consumer instance whose loop keeps       *)
(* running: the loop of _consumer_loop polls again after every pass, and  *)
(* a stopped listener is started again.                                   *)
NextLive ==
    \/ \E m \in Mids : try_store_wecom_inbox(m)
    \/ ConsumerStep("c1")
    \/ stop("c1")
    \/ start("c1")
    \/ Tick

LiveSpec ==
    /\ Init
    /\ [][NextLive]_vars
    /\ WF_vars(ConsumerStep("c1"))
    /\ WF_vars(start("c1"))

(* The producers of the ledger: the mailbox poller with its concurrent    *)
(* store tasks, and the webhook store.                                    *)
NextIngest ==
    \/ \E u \in Uids, m \in Mids \cup {NoMid} : Deliver(u, m)
    \/ _fetch_new_emails
    \/ \E u \in Uids : _store_single_raw_seen(u)
    \/ \E u \in Uids : _store_single_raw_insert(u)
    \/ \E u \in Uids : _store_single_raw_fails(u)
    \/ \E u \in Uids : _store_single_raw_mark(u)
    \/ \E u \in Uids : _mark_seen(u)
    \/ _store_raw_batch
    \/ TTLIdempotencyStore_init
    \/ \E m \in Mids : try_store_wecom_inbox(m)
    \/ Tick

IngestSpec == InitPlain /\ [][NextIngest]_vars

(* time.time() of the idempotency store keeps advancing: once the model's *)
(* clock has reached MaxTime the expiries still ahead are moved one unit  *)
(* towards it instead (seen compares an expiry with the clock only).      *)
TimePasses ==
    LET Age(t) == IF t = NoTime \/ t <= now THEN t ELSE t - 1
    IN /\ now = MaxTime
       /\ idempotency' = [k \in AllMids |-> Age(idempotency[k])]
       /\ idempotency' # idempotency
       /\ UNCHANGED <<now, kind, syncVars, listener, processing_ids, max_retry_attempts, loops, inbox, cons, mailbox, raws, queueVars>>

(* The KF sync calls and the webhook store of the same channel *)
NextSync ==
    \/ \E k \in Syncs : sync_kf_messages(k)
    \/ \E k \in Syncs : sync_kf_messages_page(k)
    \/ \E m \in Mids : try_store_wecom_inbox(m)

SyncSpec == InitPlain /\ [][NextSync]_vars

(* The supervisor of the mailbox pollers, with the platforms of the       *)
(* database changing between its cycles.                                  *)
NextSupervisor ==
    \/ \E platforms \in SUBSET PlatformIds : _supervisor_loop(platforms)
    \/ _reconcile_platform_tasks
    \/ stop_listener
    \/ \E p \in PlatformIds : _poll_platform_returns(p)
    \/ _cancel_all_platform_tasks

SupervisorSpec == InitPlain /\ [][NextSupervisor]_vars

(* The mailbox poller on its own *)
NextMail ==
    \/ \E u \in Uids, m \in Mids \cup {NoMid} : Deliver(u, m)
    \/ _fetch_new_emails
    \/ \E u \in Uids : _store_single_raw_seen(u)
    \/ \E u \in Uids : _store_single_raw_insert(u)
    \/ \E u \in Uids : _store_single_raw_fails(u)
    \/ \E u \in Uids : _store_single_raw_mark(u)
    \/ \E u \in Uids : _mark_seen(u)
    \/ _store_raw_batch
    \/ TTLIdempotencyStore_init
    \/ Tick
    \/ TimePasses

(* _poll_platform polls again after every sleep and the awaits of a store *)
(* task return; the database and the IMAP server do not fail forever: a   *)
(* commit and a flagging that are tried again and again succeed at last.  *)
MailSpec ==
    /\ InitPlain
    /\ [][NextMail]_vars
    /\ WF_vars(_fetch_new_emails)
    /\ WF_vars(_store_raw_batch)
    /\ WF_vars(Tick)
    /\ WF_vars(TimePasses)
    /\ \A u \in Uids :
          /\ WF_vars(_store_single_raw_seen(u))
          /\ SF_vars(_store_single_raw_insert(u))
          /\ WF_vars(_store_single_raw_mark(u))
          /\ SF_vars(_mark_seen(u) /\ mailbox'[u].flag = "seen")

(* The waiting queue with its requests, sweeps, staff actions and clock *)
NextQueue ==
    \/ \E r \in Requests, v \in Visitors : get_or_create_visitor(r, v)
    \/ \E r \in Requests, b \in BOOLEAN : add_visitor_to_waiting_queue(r, b)
    \/ \E r \in Requests : trigger_queue_for_entry(r)
    \/ \E r \in Requests : trigger_queue_for_entry_result(r)
    \/ \E w \in Sweeps : trigger_queue_for_project(w)
    \/ \E w \in Sweeps : _process_project_queue_internal(w)
    \/ \E w \in Sweeps : _process_project_queue_internal_result(w)
    \/ \E w \in Sweeps : _process_project_queue_internal_raises(w)
    \/ _process_fallback_batch
    \/ process_project_entries("fallback")
    \/ process_project_entries_result("fallback")
    \/ \E v \in Visitors, s \in Staffs : accept_visitor(v, s)
    \/ accept_visitor_result
    \/ _cleanup_expired_entries
    \/ \E e \in 1..MaxEntries : cancel_queue_entry(e)
    \/ Tick

QueueSpec == InitPlain /\ [][NextQueue]_vars

(* The queue with its enqueueing requests, their immediate attempts, the  *)
(* reactive sweep and a cleanup loop that keeps running: _cleanup_loop    *)
(* calls _cleanup_expired_entries again after every sleep.                *)
NextCleanup ==
    \/ \E r \in Requests, v \in Visitors : get_or_create_visitor(r, v)
    \/ \E r \in Requests, b \in BOOLEAN : add_visitor_to_waiting_queue(r, b)
    \/ \E r \in Requests : trigger_queue_for_entry(r)
    \/ \E r \in Requests : trigger_queue_for_entry_result(r)
    \/ \E w \in Sweeps : trigger_queue_for_project(w)
    \/ \E w \in Sweeps : _process_project_queue_internal(w)
    \/ \E w \in Sweeps : _process_project_queue_internal_result(w)
    \/ _cleanup_expired_entries
    \/ Tick

CleanupSpec ==
    /\ InitPlain
    /\ [][NextCleanup]_vars
    /\ WF_vars(_cleanup_expired_entries)

(* The round trip of a message: the webhook store, one consumer, and the  *)
(* Responder, which answers with a reply text, raises, or has the visitor *)
(* of the message queued for a human through add_visitor_to_waiting_queue *)
(* before it returns without a reply text.                                *)
VisitorOfMessage(m) == IF m % 2 = 1 THEN "v1" ELSE "v2"

process_message_reply(c) ==
    /\ cons[c].pc = "respond"
    /\ FinalizeSuccess(c, "reply")
    /\ UNCHANGED <<now, kind, syncVars, listener, processing_ids, max_retry_attempts, loops, ingestVars, queueVars>>

process_message_needs_human(c, r) ==
    /\ cons[c].pc = "respond"
    /\ LoadVisitor(r, VisitorOfMessage(inbox[cons[c].cands[cons[c].idx]].message_id))
    /\ cons' = [cons EXCEPT ![c].pc = "handoff"]
    /\ UNCHANGED <<now, kind, syncVars, listener, processing_ids, max_retry_attempts, loops, inbox, ingestVars, entries, processing>>

process_message_queued(c, r) ==
    /\ cons[c].pc = "handoff"
    /\ qtasks[r].pc = "idle"
    /\ FinalizeSuccess(c, NoText)
    /\ UNCHANGED <<now, kind, syncVars, listener, processing_ids, max_retry_attempts, loops, ingestVars, queueVars>>

NextRoundTrip ==
    \/ \E m \in Mids : try_store_wecom_inbox(m)
    \/ _select_candidates_pending("c1")
    \/ _select_candidates_failed("c1")
    \/ _claim_record("c1")
    \/ process_message_reply("c1")
    \/ _finalize_failure("c1")
    \/ process_message_needs_human("c1", "r1")
    \/ \E b \in BOOLEAN : add_visitor_to_waiting_queue("r1", b)
    \/ trigger_queue_for_entry("r1")
    \/ trigger_queue_for_entry_result("r1")
    \/ process_message_queued("c1", "r1")
    \/ Tick

RoundTripSpec == InitLocked /\ [][NextRoundTrip]_vars

(* A queue table that holds waiting entries of several priorities, as the *)
(* priority column and the ORDER BY of the sweeps provide for: entries of  *)
(* priority 1 at positions 1, 2, ... and one entry of priority 3 at        *)
(* position 1, one per visitor, inserted in any order.                     *)
HighPriority == 3
OrderVisitorOf == <<"v1", "v2", "v3", "v4">>

OrderEntry(k, v) ==
    [NewEntry(v, IF k = MaxOrderEntries THEN 1 ELSE k, 0)
        EXCEPT !.priority = IF k = MaxOrderEntries THEN HighPriority ELSE 1]

OrderTables ==
    {[i \in 1..MaxOrderEntries |-> OrderEntry(perm[i], OrderVisitorOf[i])] :
       perm \in {f \in [1..MaxOrderEntries -> 1..MaxOrderEntries] :
                   \A i, j \in 1..MaxOrderEntries : i # j => f[i] # f[j]}}

InitOrder ==
    /\ now = 0
    /\ kind = "plain"
    /\ loops = [l \in Loops |-> RunningLoop]
    /\ max_retry_attempts = MaxRetryAttempts
    /\ kf_cursor = 0
    /\ syncs = [k \in Syncs |-> IdleSync]
    /\ listener = NewListener
    /\ processing_ids = {}
    /\ inbox = <<>>
    /\ cons = [c \in Consumers |-> IdleConsumer]
    /\ mailbox = [u \in Uids |-> NoMail]
    /\ idempotency = EmptyStore
    /\ raws = NoRaws
    /\ entries \in OrderTables
    /\ visitors = [v \in {OrderVisitorOf[i] : i \in 1..MaxOrderEntries} |-> "queued"]
    /\ processing = {}
    /\ qtasks = [t \in QTasks |-> IdleTask]

(* The reactive and the fallback sweeps over such a table *)
NextOrder ==
    \/ \E w \in Sweeps : trigger_queue_for_project(w)
    \/ \E w \in Sweeps : _process_project_queue_internal(w)
    \/ \E w \in Sweeps : _process_project_queue_internal_result(w)
    \/ _process_fallback_batch
    \/ process_project_entries("fallback")
    \/ process_project_entries_result("fallback")

OrderSpec == InitOrder /\ [][NextOrder]_vars

(* The fallback loop alone over a table of waiting entries that no       *)
(* reactive trigger was fired for, e.g. after a restart. The entries have *)
(* no deadline (expired_at IS NULL, which lines 79-80 of the selection    *)
(* count as not expired), so that they stay waiting for as long as no     *)
(* staff is found for them.                                               *)
InitFallback ==
    /\ now = 0
    /\ kind = "plain"
    /\ loops = [l \in Loops |-> RunningLoop]
    /\ max_retry_attempts = MaxRetryAttempts
    /\ kf_cursor = 0
    /\ syncs = [k \in Syncs |-> IdleSync]
    /\ listener = NewListener
    /\ processing_ids = {}
    /\ inbox = <<>>
    /\ cons = [c \in Consumers |-> IdleConsumer]
    /\ mailbox = [u \in Uids |-> NoMail]
    /\ idempotency = EmptyStore
    /\ raws = NoRaws
    /\ entries \in {[i \in 1..MaxOrderEntries |-> [tbl[i] EXCEPT !.expired_at = NoTime]] :
                      tbl \in OrderTables}
    /\ visitors = [v \in {OrderVisitorOf[i] : i \in 1..MaxOrderEntries} |-> "queued"]
    /\ processing = {}
    /\ qtasks = [t \in QTasks |-> IdleTask]

(* The clock of the fallback loop, which never stops: once now has        *)
(* reached MaxTime, every timestamp of the table and of the sessions is   *)
(* moved one unit into the past instead (timestamps of age MaxTime or     *)
(* more are told apart by no comparison of the sweep).                    *)
Elapse ==
    LET Age(t) == IF t = NoTime \/ t = 0 THEN t ELSE t - 1
        Aged(row) == [row EXCEPT !.last_attempt_at = Age(@), !.expired_at = Age(@)]
    IN IF now < MaxTime
       THEN /\ now' = now + 1
            /\ UNCHANGED <<kind, syncVars, listener, processing_ids, max_retry_attempts, loops, inbox, cons, ingestVars, queueVars>>
       ELSE /\ entries' = [e \in EntryIds |-> Aged(entries[e])]
            /\ qtasks' = [t \in QTasks |->
                  [qtasks[t] EXCEPT !.at = Age(@),
                                    !.copies = [e \in DOMAIN @ |-> Aged(@[e])]]]
            /\ UNCHANGED <<now, kind, syncVars, listener, processing_ids, max_retry_attempts, loops, inbox, cons, ingestVars, visitors, processing>>

NextFallback ==
    \/ _process_fallback_batch
    \/ process_project_entries("fallback")
    \/ process_project_entries_result("fallback")
    \/ Elapse

(* _fallback_loop runs _process_fallback_batch again after every sleep,   *)
(* and the awaits of a run return.                                        *)
FallbackSpec ==
    /\ InitFallback
    /\ [][NextFallback]_vars
    /\ WF_vars(_process_fallback_batch)
    /\ WF_vars(process_project_entries("fallback"))
    /\ WF_vars(process_project_entries_result("fallback"))
    /\ WF_vars(Elapse)

(* The fallback sweep in a process whose queue tasks are stopped and      *)
(* started again (stop_queue_tasks, start_queue_tasks).                   *)
RestartSpec == InitFallback /\ [][NextFallback \/ stop_queue_tasks]_vars

(* The background loops on their own *)
NextLoops ==
    \/ \E l \in Loops : loop_cycle(l)
    \/ \E l \in Loops : loop_wakes(l)
    \/ \E l \in Loops : loop_cancelled(l)

LoopSpec == InitPlain /\ [][NextLoops]_vars

(* One consumer instance of a channel, for every max_retry_attempts a    *)
(* platform may be configured with, 0 included.                           *)
InitRetry ==
    /\ now = 0
    /\ kind \in Kinds
    /\ loops = [l \in Loops |-> RunningLoop]
    /\ max_retry_attempts \in 0..MaxRetryAttempts
    /\ kf_cursor = 0
    /\ syncs = [k \in Syncs |-> IdleSync]
    /\ listener = NewListener
    /\ processing_ids = {}
    /\ inbox = <<>>
    /\ cons = [c \in Consumers |-> IdleConsumer]
    /\ mailbox = [u \in Uids |-> NoMail]
    /\ idempotency = EmptyStore
    /\ raws = NoRaws
    /\ entries = <<>>
    /\ visitors = [v \in Visitors |-> "new"]
    /\ processing = {}
    /\ qtasks = [t \in QTasks |-> IdleTask]

RetrySpec == InitRetry /\ [][NextLive]_vars

(* The whole pipeline *)
Next == NextLedger \/ NextIngest \/ NextQueue

Spec == Init /\ [][Next]_vars

----------------------------------------------------------------------------
(* Properties of the inbox ledger and its consumers *)

Rows == 1..Len(inbox)
Current(c) == cons[c].cands[cons[c].idx]

(* The step in which consumer c commits its claim of a row *)
ClaimStep(c) == cons[c].pc = "claim" /\ cons'[c].pc = "respond"

(* A SELECT of consumer c returns row r as a new candidate *)
Selects(c, r) ==
    /\ cons[c].pc \in {"idle", "failedq"}
    /\ r \in Range(cons'[c].cands) \ Range(cons[c].cands)

(* C2: no double claim. Every claim commit takes a row whose committed    *)
(* status is pending or failed, so between two moments at which a row     *)
(* becomes pending or failed at most one pass sets it to processing and   *)
(* hands it to the Responder; for every candidate of a batch.             *)
NoDoubleClaim ==
    [][\A c \in Consumers :
         ClaimStep(c) => inbox[Current(c)].status \in {"pending", "failed"}]_vars

(* C6: backoff monotonicity. A row that is failed with retry_count = n is *)
(* set to processing only when max(1, 2^n) time units have elapsed since  *)
(* its processed_at.                                                      *)
BackoffMonotone ==
    [][\A c \in Consumers :
         (ClaimStep(c) /\ inbox[Current(c)].status = "failed")
            => now - inbox[Current(c)].processed_at
                  >= BackoffDelay(inbox[Current(c)].retry_count)]_vars

(* C7: retry ceiling. A failed row with retry_count >= max_retries is not *)
(* part of any batch selected from then on, and the row stays as it is:   *)
(* failed, with its error message, never deleted.                         *)
RetryCeiling ==
    [][\A r \in Rows :
         (inbox[r].status = "failed" /\ inbox[r].retry_count >= max_retries)
            => /\ r \in 1..Len(inbox')
               /\ inbox'[r] = inbox[r]
               /\ \A c \in Consumers : ~Selects(c, r)]_vars

(* C8: every row that enters processing eventually leaves it for          *)
(* completed or failed.                                                   *)
ProcessingEnds ==
    \A r \in 1..MaxMsgs :
        (r \in Rows /\ inbox[r].status = "processing")
            ~> (r \in Rows /\ inbox[r].status \in {"completed", "failed"})

(* C9: when stop() cancels a consumer that has claimed a row, the row is  *)
(* not left in processing.                                                *)
StopLeavesNoClaim ==
    [][\A c \in Consumers :
         (cons[c].pc = "respond" /\ cons'[c].pc = "stopped")
            => inbox'[Current(c)].status # "processing"]_vars

(* C14: per-record exception isolation. Whatever happens to the candidate *)
(* a pass is handling, a raising claim commit, Responder or finalize       *)
(* commit included, the pass goes on with the next candidate of its batch  *)
(* while one is left; only stop() ends a pass early.                       *)
ExceptionIsolated ==
    [][\A c \in Consumers :
         (/\ cons[c].pc \in {"claim", "respond"}
          /\ cons[c].idx < Len(cons[c].cands)
          /\ cons'[c] # cons[c]
          /\ cons'[c].pc # "stopped")
            => \/ cons[c].pc = "claim" /\ cons'[c].pc = "respond"
                    /\ cons'[c].idx = cons[c].idx
               \/ cons'[c].pc = "claim" /\ cons'[c].idx = cons[c].idx + 1]_vars

----------------------------------------------------------------------------
(* Properties of the producers *)

(* The step in which the store task of mail u returns from its INSERT *)
InsertStep(u) == raws[u] = "insert" /\ raws'[u] \in {"stored", "duplicate"}

(* C1: idempotent ingestion. The ledger never holds two rows with one     *)
(* message id; after an INSERT of a producer returns the ledger holds     *)
(* exactly one row with its message id, and an INSERT that meets the row  *)
(* of its message id adds no row.                                         *)
IdempotentIngestion ==
    /\ [](\A m \in AllMids : Cardinality(RowsOf(m)) <= 1)
    /\ [][\A u \in Uids :
            InsertStep(u)
               => /\ Cardinality(RowsIn(inbox', MessageIdOf(u))) = 1
                  /\ RowsOf(MessageIdOf(u)) # {} => inbox' = inbox]_vars

(* A store task that met the row of its message id, stored by a task of   *)
(* the same batch or by an earlier insert                                 *)
DuplicateInsertMet ==
    \E u \in Uids :
        /\ raws[u] = "duplicate"
        /\ Cardinality(RowsOf(MessageIdOf(u))) = 1

(* The step in which mail u gets its \Seen flag *)
FlagStep(u) == mailbox[u].flag # "seen" /\ mailbox'[u].flag = "seen"

(* C12: no mailbox message is silently lost. A mail is flagged \Seen only *)
(* by a store task whose INSERT stored its row or met the row of its       *)
(* message id; a store task whose INSERT failed otherwise leaves the mail  *)
(* unseen; so every mail flagged \Seen has a row with its message id, and  *)
(* a duplicate INSERT leaves the ledger as it is.                          *)
SeenOnlyAfterStored ==
    /\ [](\A u \in Uids : mailbox[u].flag = "seen" => RowsOf(MessageIdOf(u)) # {})
    /\ [][\A u \in Uids :
            /\ FlagStep(u) => raws[u] = "flag"
            /\ raws'[u] = "flag" /\ raws[u] # "flag" => raws[u] \in {"stored", "duplicate"}
            /\ raws'[u] = "duplicate" /\ raws[u] # "duplicate" => inbox' = inbox
            /\ (raws[u] = "insert" /\ raws'[u] = "done")
                 => mailbox'[u].flag = "unseen" /\ inbox' = inbox]_vars

(* One mail is flagged \Seen with its row stored, while the store task of  *)
(* another mail has failed: that mail has no row and is still unseen.      *)
FailedInsertStaysUnseen ==
    \E u, w \in Uids :
        /\ mailbox[u].flag = "seen"
        /\ RowsOf(MessageIdOf(u)) # {}
        /\ mailbox[w].flag = "unseen"
        /\ raws[w] = "done"
        /\ RowsOf(MessageIdOf(w)) = {}

----------------------------------------------------------------------------
(* Properties of the waiting queue *)

WaitingOf(v) == {e \in Waiting(entries) : entries[e].visitor_id = v}
InFlight == {w \in Sweeps : qtasks[w].pc \in {"scheduled", "transfer"}}

(* C3: at most one active queue entry. In every reachable state every     *)
(* visitor of the project has at most one entry with status waiting.      *)
AtMostOneWaiting == \A v \in Visitors : Cardinality(WaitingOf(v)) <= 1

(* A request that loaded the visitor before another request enqueued it   *)
(* is about to enqueue: its copy of the visitor is unassigned and the     *)
(* visitor's entry waits.                                                 *)
EnqueueMeetsWaiting ==
    \E r \in Requests :
        /\ qtasks[r].pc = "loaded"
        /\ is_unassigned(qtasks[r].vcopy)
        /\ Cardinality(WaitingOf(qtasks[r].visitor)) = 1

(* C4: exactly one staff per entry. Once an entry is assigned to staff s  *)
(* no step changes its status or its assigned_staff_id.                   *)
AssignedIsFinal ==
    [][\A e \in EntryIds :
         entries[e].status = "assigned"
            => /\ entries'[e].status = "assigned"
               /\ entries'[e].assigned_staff_id = entries[e].assigned_staff_id]_vars

(* A trigger step of caller w that does not schedule a sweep *)
TriggerReturns(w) ==
    /\ qtasks[w].pc = "idle"
    /\ Project \in processing

(* C5: concurrent trigger safety. At most one reactive sweep of the       *)
(* project is scheduled or running: a sweep is scheduled only when none   *)
(* is in flight, and then the project is in _processing_project_ids, so   *)
(* that a second trigger returns without starting a task.                 *)
OneSweepPerProject ==
    /\ Cardinality(InFlight) <= 1
    /\ InFlight # {} => Project \in processing

(* The sweep of a first trigger is in flight and a second caller is idle *)
SecondTriggerReturns ==
    \E w1, w2 \in Sweeps :
        /\ qtasks[w1].pc = "transfer"
        /\ TriggerReturns(w2)

(* C10: expiration terminality. No step takes an entry to assigned when   *)
(* the entry is expired or its expired_at has passed.                     *)
ExpiredNeverAssigned ==
    [][\A e \in EntryIds :
         (entries[e].status # "assigned" /\ entries'[e].status = "assigned")
            => /\ entries[e].status # "expired"
               /\ ~PastExpiry(entries[e], now)]_vars

(* An entry sorts no later than another in (priority desc, position asc) *)
InOrder(a, b) ==
    \/ a.priority > b.priority
    \/ a.priority = b.priority /\ a.position <= b.position

SweepTasks == Sweeps \cup {"fallback"}

(* Sweep t starts its attempt on a candidate of its batch *)
Attempts(t) ==
    /\ qtasks'[t].pc = "transfer"
    /\ qtasks[t].pc # "transfer" \/ qtasks'[t].idx # qtasks[t].idx

(* C11: sweep ordering. The batch of a reactive or fallback sweep is in    *)
(* (priority descending, position ascending) order and starts with the    *)
(* entries that sort first among those the sweep's query selects; the     *)
(* sweep attempts the candidates of its batch in the order of the batch.  *)
SweepOrdering ==
    /\ [](\A t \in SweepTasks : \A i, j \in 1..Len(qtasks[t].cands) :
            i < j => InOrder(entries[qtasks[t].cands[i]], entries[qtasks[t].cands[j]]))
    /\ [][\A t \in SweepTasks :
            /\ (Attempts(t) /\ qtasks[t].pc = "transfer") => qtasks'[t].idx > qtasks[t].idx
            /\ (qtasks[t].cands = <<>> /\ qtasks'[t].cands # <<>>)
                 => \A e \in Waiting(entries) \ Range(qtasks'[t].cands) :
                      \/ ~NotExpired(entries[e], now)
                      \/ t = "fallback" /\ entries[e].last_attempt_at # NoTime
                           /\ entries[e].last_attempt_at >= now - QueueFallbackInterval
                      \/ \A c \in Range(qtasks'[t].cands) : InOrder(entries[c], entries[e])
           ]_vars

(* Coroutines that hold a slot of a sweep semaphore *)
Sweeping == {t \in Requests \cup Sweeps \cup {"fallback"} : qtasks[t].pc = "transfer"}

(* C13: the global concurrency ceiling. The reactive sweeps, immediate     *)
(* attempts and fallback project groups that run at one time are never     *)
(* more than QUEUE_PROCESS_MAX_WORKERS.                                    *)
GlobalCeiling == Cardinality(Sweeping) <= QueueProcessMaxWorkers

(* C15: cancel is an idempotent no-op on an entry that is not waiting: a  *)
(* cancel request on an assigned, cancelled or expired entry succeeds, as *)
(* does a second cancel after a first.                                    *)
CancelIdempotent ==
    \A e \in EntryIds :
        entries[e].status # "waiting" => cancel_response(entries, e) = "200 ok"

(* Request r returns from add_visitor_to_waiting_queue or goes on to its  *)
(* immediate attempt                                                      *)
EnqueueStep(r) == qtasks[r].pc = "loaded" /\ qtasks'[r].pc # "loaded"

(* C16: enqueue of an ineligible visitor. The call returns the            *)
(* cannot-enter result with the visitor's status, and leaves the entries  *)
(* and the visitors as they are; no assignment attempt follows.           *)
IneligibleRejected ==
    [][\A r \in Requests :
         (EnqueueStep(r) /\ ~is_unassigned(qtasks[r].vcopy))
            => /\ AddToQueueResult(qtasks[r].vcopy, qtasks[r].visitor)
                    = EnqueueResult(FALSE, 0, NoEntry, FALSE, TRUE, qtasks[r].vcopy)
               /\ entries' = entries
               /\ visitors' = visitors
               /\ processing' = processing
               /\ qtasks'[r] = IdleTask]_vars

(* A request is about to enqueue a visitor that is queued or in service *)
IneligibleEnqueueMet ==
    \E r \in Requests :
        /\ qtasks[r].pc = "loaded"
        /\ qtasks[r].vcopy \in {"queued", "active"}
        /\ ~is_unassigned(qtasks[r].vcopy)
        /\ AddToQueueResult(qtasks[r].vcopy, qtasks[r].visitor).cannot_enter

OverdueExpires ==
    \A e \in 1..MaxEntries :
        (e \in EntryIds /\ entries[e].status = "waiting" /\ PastExpiry(entries[e], now))
            ~> (e \in EntryIds /\ entries[e].status = "expired")

(* A sweep attempts its third candidate, having taken the priority-3      *)
(* entry first and then the two priority-1 entries in position order.     *)
SweepReachesThird ==
    \E t \in SweepTasks :
        /\ qtasks[t].pc = "transfer"
        /\ qtasks[t].idx = 3
        /\ entries[qtasks[t].cands[1]].priority = HighPriority
        /\ entries[qtasks[t].cands[2]].priority = 1
        /\ entries[qtasks[t].cands[3]].priority = 1
        /\ entries[qtasks[t].cands[2]].position < entries[qtasks[t].cands[3]].position

(* C19: the round trip of one payload. The store of a message id leaves   *)
(* exactly one row for it, in pending; and when the consumer's cycle over *)
(* the row ends, the row is completed with a reply text, or the Responder *)
(* asked for a human and the visitor of the message has a waiting entry   *)
(* at position 1.                                                         *)
StoreStep(m) == RowsIn(inbox, m) = {} /\ RowsIn(inbox', m) # {}
StoredOncePending(m) ==
    /\ Cardinality(RowsIn(inbox', m)) = 1
    /\ \A i \in RowsIn(inbox', m) : inbox'[i] = NewRow(m)

CycleEnds(c) ==
    /\ cons[c].pc \in {"respond", "handoff"}
    /\ cons'[c].pc \notin {"respond", "handoff"}

EntriesOf(tbl, v, statuses) ==
    {e \in 1..Len(tbl) : tbl[e].visitor_id = v /\ tbl[e].status \in statuses}

ClaimWrite(r) ==
    /\ inbox[r].status \in {"pending", "failed"}
    /\ inbox'[r].status = "processing"
    /\ inbox'[r].error_message = NoError
    /\ inbox'[r].retry_count = inbox[r].retry_count

CompleteWrite(r) ==
    /\ inbox[r].status = "processing"
    /\ inbox'[r].status = "completed"
    /\ inbox'[r].ai_reply \in Replies
    /\ inbox'[r].error_message = NoError

FailWrite(r) ==
    /\ inbox[r].status = "processing"
    /\ inbox'[r].status = "failed"
    /\ inbox'[r].retry_count = inbox[r].retry_count + 1
    /\ inbox'[r].processed_at = now
    /\ inbox'[r].error_message \in 0..ErrorMessageLimit
    /\ \E error \in Errors :
          inbox'[r].error_message = IF error < ErrorMessageLimit THEN error
                                   ELSE ErrorMessageLimit

InboxStateMachine ==
    [][/\ \A r \in Rows :
            inbox'[r] # inbox[r] => ClaimWrite(r) \/ CompleteWrite(r) \/ FailWrite(r)
       /\ \A c \in Consumers, r \in Rows :
            Selects(c, r) => inbox[r].status # "completed"]_vars

(* C21: candidate selection. The pending SELECT of a pass returns at most  *)
(* batch_size rows, all pending, oldest first, and no pending row it      *)
(* could see is older than one it returned; failed rows are added only    *)
(* when the pending rows are fewer than batch_size, after them, and only  *)
(* rows that are failed with retry_count < max_retries and whose backoff  *)
(* window has elapsed, and the batch never exceeds batch_size.            *)
CandidateSelection ==
    [][\A c \in Consumers :
        /\ (cons[c].pc = "idle" /\ cons'[c].pc \in {"failedq", "claim"}) =>
              LET p == cons'[c].cands
              IN /\ Len(p) <= batch_size
                 /\ (cons'[c].pc = "failedq") <=> (Len(p) < batch_size)
                 /\ \A i \in 1..Len(p) : inbox[p[i]].status = "pending"
                 /\ \A i, j \in 1..Len(p) : i < j => FetchedAt(p[i]) < FetchedAt(p[j])
                 /\ \A r \in PendingIds(c) \ Range(p) :
                       /\ Len(p) = batch_size
                       /\ \A i \in 1..Len(p) : FetchedAt(p[i]) <= FetchedAt(r)
        /\ (cons[c].pc = "failedq" /\ cons'[c].pc = "claim") =>
              LET old == cons[c].cands
                  new == cons'[c].cands
              IN /\ Len(new) <= batch_size
                 /\ Len(old) <= Len(new)
                 /\ SubSeq(new, 1, Len(old)) = old
                 /\ \A i \in (Len(old) + 1)..Len(new) :
                       /\ inbox[new[i]].status = "failed"
                       /\ inbox[new[i]].retry_count < max_retries
                       /\ BackoffElapsed(inbox[new[i]], now)]_vars

(* C22: every assignment attempt leaves its attempt record. When the      *)
(* transfer of a sweep, of an immediate attempt, of the fallback or of    *)
(* the accept path returns or raises, the entry it was made for holds in  *)
(* the table a last_attempt_at no older than the start of the attempt.    *)
AttemptRecorded ==
    [][\A t \in QTasks :
         (qtasks[t].pc = "transfer" /\ qtasks'[t] # qtasks[t]) =>
            LET e == CurrentEntry(t)
            IN /\ entries'[e].last_attempt_at # NoTime
               /\ qtasks[t].at # NoTime
               /\ entries'[e].last_attempt_at >= qtasks[t].at]_vars

(* C23: assignment-not-possible is not an error. A transfer that returns  *)
(* either assigns its entry, or leaves the status and assigned_staff_id   *)
(* of the entry, every other entry and every visitor as they were; and    *)
(* the coroutine that made the attempt goes on or returns: an immediate   *)
(* attempt or accept returns to its caller, a sweep ends with the         *)
(* project released or moves to its next entry.                           *)
NoStaffLeavesWaiting ==
    [][\A t \in QTasks :
         (qtasks[t].pc = "transfer" /\ qtasks'[t] # qtasks[t]) =>
            LET e == CurrentEntry(t)
            IN \/ /\ entries'[e].status = "assigned"
                  /\ entries'[e].assigned_staff_id # NoStaff
               \/ /\ entries'[e].status = entries[e].status
                  /\ entries'[e].assigned_staff_id = entries[e].assigned_staff_id
                  /\ \A x \in EntryIds \ {e} : entries'[x] = entries[x]
                  /\ visitors' = visitors
                  /\ qtasks'[t].pc \in {"idle", "transfer", "refetch"}
                  /\ qtasks'[t].pc # "idle" => qtasks'[t].idx > qtasks[t].idx
                  /\ (t \in Sweeps /\ qtasks'[t].pc = "idle") => processing' = {}
                  /\ t \in Requests \cup {"accept"} => qtasks'[t].pc = "idle"]_vars

(* An attempt found no staff: its record is in the table, the entry still *)
(* waits unassigned, its visitor is still queued and no coroutine is left *)
(* in flight.                                                             *)
NoStaffAttemptMade ==
    \E e \in EntryIds :
        /\ entries[e].status = "waiting"
        /\ entries[e].last_attempt_at # NoTime
        /\ entries[e].assigned_staff_id = NoStaff
        /\ visitors[entries[e].visitor_id] = "queued"
        /\ InFlightTasks = {}
        /\ processing = {}

(* C24: early stop. A sweep works on one entry of its batch at a time, in *)
(* batch order: a transfer result writes no entry but the one attempted,  *)
(* and a sweep that goes on keeps its batch and takes a later entry of    *)
(* it. A result that commits the attempt record of an entry that still    *)
(* waits, the attempt having found no staff, ends the sweep: no later     *)
(* entry of the batch is attempted by it.                                 *)
EarlyStop ==
    [][\A t \in SweepTasks :
         (qtasks[t].pc = "transfer" /\ qtasks'[t] # qtasks[t]) =>
            LET e == CurrentEntry(t)
            IN /\ \A x \in EntryIds \ {e} : entries'[x] = entries[x]
               /\ qtasks'[t].pc # "idle" =>
                     /\ qtasks'[t].cands = qtasks[t].cands
                     /\ qtasks'[t].idx > qtasks[t].idx
               /\ ( /\ entries'[e].last_attempt_at # entries[e].last_attempt_at
                    /\ entries'[e].status = "waiting" )
                  => qtasks'[t].pc = "idle"]_vars

(* A sweep has stopped at an entry it could not assign: the entry holds   *)
(* its attempt record and waits, a later entry of the queue was not       *)
(* attempted, and no sweep is in flight.                                  *)
StoppedEarly ==
    /\ InFlightTasks = {}
    /\ \E a, b \in EntryIds :
          /\ entries[a].status = "waiting"
          /\ entries[a].last_attempt_at # NoTime
          /\ entries[b].status = "waiting"
          /\ entries[b].last_attempt_at = NoTime
          /\ QueueKey(a) < QueueKey(b)

(* C25: fallback selection and freshness. The entry on which the fallback *)
(* sweep starts an attempt is, at that moment, waiting, not expired, and  *)
(* has no attempt record younger than the fallback interval.              *)
FallbackFresh ==
    [][Attempts("fallback") =>
         LET e == qtasks'["fallback"].cands[qtasks'["fallback"].idx]
         IN /\ entries[e].status = "waiting"
            /\ NotExpired(entries[e], now)
            /\ \/ entries[e].last_attempt_at = NoTime
               \/ entries[e].last_attempt_at < now - QueueFallbackInterval]_vars


PositionMonotonic ==
    \A a, b \in EntryIds : a < b => entries[a].position < entries[b].position



(* C28: an enqueue that creates an entry with trigger_processing set      *)
(* makes one assignment attempt on that entry before it returns.          *)
ImmediateAttempt ==
    [][\A r \in Requests : qtasks[r].pc = "immediate" => qtasks'[r].pc # "idle"]_vars

(* C28: an enqueue that creates an entry commits the waiting entry and    *)
(* the queued visitor state first. With trigger_processing set it then    *)
(* makes at most one attempt on that entry before it returns: one if the  *)
(* entry is still waiting when the attempt reads it, none if it is not.   *)
(* With trigger_processing unset it returns without an attempt and the    *)
(* entry is left waiting.                                                 *)
ImmediateAttemptIfWaiting ==
    [][\A r \in Requests :
         LET e == Len(entries) + 1
             Created == /\ qtasks[r].pc = "loaded" /\ qtasks'[r].pc # "loaded"
                        /\ Len(entries') = e
             Committed == /\ entries'[e].status = "waiting"
                          /\ entries'[e].visitor_id = qtasks[r].visitor
                          /\ entries'[e].last_attempt_at = NoTime
                          /\ visitors'[qtasks[r].visitor] = "queued"
         IN /\ Created => /\ Committed
                          /\ qtasks'[r].pc \in {"immediate", "idle"}
                          /\ qtasks'[r].pc = "immediate" => qtasks'[r].cands = <<e>>
            /\ qtasks[r].pc = "loaded" /\ ~Created => qtasks'[r].pc \in {"loaded", "idle"}
            /\ qtasks[r].pc = "immediate" /\ qtasks'[r].pc = "transfer" =>
                  /\ entries[CurrentEntry(r)].status = "waiting"
                  /\ qtasks'[r].cands = qtasks[r].cands
            /\ qtasks[r].pc = "immediate" /\ qtasks'[r].pc = "idle" =>
                  /\ entries[CurrentEntry(r)].status # "waiting"
                  /\ entries' = entries
            /\ qtasks[r].pc = "immediate" => qtasks'[r].pc \in {"immediate", "transfer", "idle"}
            /\ qtasks[r].pc = "transfer" => qtasks'[r].pc \in {"transfer", "idle"}]_vars

(* The immediate attempt of an enqueue is under way on its waiting entry *)
ImmediateAttemptMade ==
    \E r \in Requests :
       /\ qtasks[r].pc = "transfer"
       /\ entries[CurrentEntry(r)].status = "waiting"
       /\ entries[CurrentEntry(r)].last_attempt_at = NoTime
       /\ visitors[entries[CurrentEntry(r)].visitor_id] = "queued"



(* C29: accept starts on a visitor only with the visitor's latest waiting *)
(* entry and changes nothing before its transfer returns; when the        *)
(* transfer succeeds the entry ends assigned to the accepting staff       *)
(* member, with no other column changed, and the visitor is active; when  *)
(* the transfer fails the entry and the visitor are left as they are.     *)
AcceptAssigns ==
    [][LET t == qtasks["accept"]
           e == t.cands[t.idx]
           Starts == t.pc = "idle" /\ qtasks'["accept"].pc = "transfer"
           Returns == t.pc = "transfer" /\ qtasks'["accept"].pc = "idle"
       IN /\ Starts =>
               LET f == qtasks'["accept"].cands[1]
               IN /\ f \in Waiting(entries)
                  /\ \A y \in Waiting(entries) :
                        entries[y].visitor_id = entries[f].visitor_id => y <= f
                  /\ qtasks'["accept"].staff \in Staffs
                  /\ entries' = entries /\ visitors' = visitors
          /\ Returns =>
               \/ /\ entries' = [entries EXCEPT ![e] =
                        [@ EXCEPT !.status = "assigned", !.assigned_staff_id = t.staff]]
                  /\ visitors' = [visitors EXCEPT ![entries[e].visitor_id] = "active"]
               \/ entries' = entries /\ visitors' = visitors]_vars

(* An entry that accept assigned: assigned without an attempt record *)
AcceptedFromQueue ==
    \E e \in EntryIds :
       /\ entries[e].status = "assigned"
       /\ entries[e].assigned_staff_id \in Staffs
       /\ entries[e].last_attempt_at = NoTime



(* C30: an exception that escapes a cycle of a loop is followed by a      *)
(* sleep of the loop's full interval, the one that follows a cycle that   *)
(* returned.                                                              *)
LoopRecovery ==
    \A l \in Loops :
       loops[l].pc = "sleep" /\ loops[l].outcome = "raised" =>
          loops[l].slept = SleepAfterCycle(l, loops[l].config)

(* C30: an exception that escapes a cycle of a loop is caught by the      *)
(* loop and followed by a sleep: 5 seconds for a channel consumer, 2      *)
(* seconds for the email consumer, the configured interval (at least 1)   *)
(* for the fallback and the cleanup loop; then the next cycle begins. A   *)
(* loop ends only by cancellation.                                        *)
LoopRecoverySleeps ==
    [][\A l \in Loops :
         /\ loops[l].pc = "cycle" /\ loops'[l] # loops[l] /\ loops'[l].pc # "ended" =>
               /\ loops'[l].pc = "sleep"
               /\ loops'[l].outcome = "raised" =>
                     /\ loops'[l].slept >= 1
                     /\ l = "channel" => loops'[l].slept = SupervisorSleep
                     /\ l = "email" => loops'[l].slept = EmailConsumerSleep
                     /\ l = "fallback" /\ QueueFallbackInterval >= 1 =>
                           loops'[l].slept = QueueFallbackInterval
                     /\ l = "cleanup" /\ QueueCleanupInterval >= 1 =>
                           loops'[l].slept = QueueCleanupInterval
         /\ loops[l].pc = "sleep" /\ loops'[l] # loops[l] /\ loops'[l].pc # "ended" =>
               loops'[l].pc = "cycle"
         /\ loops'[l].pc = "ended" /\ loops[l].pc # "ended" =>
               loops'[l].outcome = "cancelled"]_vars

(* A channel consumer configured with an interval other than the default  *)
(* sleeps after an exception that escaped its cycle.                      *)
SleepsAfterError ==
    /\ loops["channel"].pc = "sleep"
    /\ loops["channel"].outcome = "raised"
    /\ loops["channel"].config = DefaultPollInterval + 1
    /\ loops["fallback"].pc = "sleep"
    /\ loops["fallback"].outcome = "raised"



(* C31: seen(key) returns true exactly when the key's latest mark was at  *)
(* a time t with now < t + TTL; a seen call removes every expired key and *)
(* adds none; mark(key) sets the expiry of its key to now + TTL and       *)
(* leaves the other keys alone.                                           *)
IdempotencyStoreContract ==
    [][\A u \in Uids :
         LET k == MessageIdOf(u)
             marked_at == idempotency[k] - IdempotencyTtl
         IN /\ raws[u] = "check" /\ raws'[u] # "check" =>
                 /\ raws'[u] = "done" <=>
                       idempotency[k] # NoTime /\ now < marked_at + IdempotencyTtl
                 /\ raws'[u] \in {"done", "insert"}
                 /\ \A j \in AllMids :
                       /\ idempotency'[j] \in {idempotency[j], NoTime}
                       /\ idempotency'[j] # NoTime => idempotency'[j] > now
                       /\ idempotency[j] # NoTime /\ idempotency[j] > now =>
                             idempotency'[j] = idempotency[j]
            /\ raws[u] \in {"stored", "duplicate"} /\ raws'[u] = "flag" =>
                 /\ idempotency'[k] = now + IdempotencyTtl
                 /\ \A j \in AllMids \ {k} : idempotency'[j] = idempotency[j]]_vars

(* A seen call has answered true: the mail was fetched again, its key is  *)
(* marked and not expired, and its store task returned without an insert. *)
SeenAnsweredTrue ==
    \E u \in Uids :
       /\ raws[u] = "done"
       /\ mailbox[u].flag = "unseen"
       /\ idempotency[MessageIdOf(u)] # NoTime
       /\ idempotency[MessageIdOf(u)] > now
       /\ \E v \in Uids : v # u /\ raws[v] = "insert"



(* C32: the idempotency store is an optimization only. Every key the      *)
(* store holds has its row in the ledger, so a store task that returns    *)
(* because seen answered true skips an insert that would have added no    *)
(* row; emptying the store changes no row, and an insert made because the *)
(* store was emptied meets the row and adds none: with or without the     *)
(* store the ledger holds exactly one row per stored message id.          *)
StoreIsOptimization ==
    /\ [](\A k \in AllMids : idempotency[k] # NoTime => Cardinality(RowsOf(k)) = 1)
    /\ [][/\ \A u \in Uids :
               /\ raws[u] = "check" /\ raws'[u] = "done" =>
                     /\ inbox' = inbox
                     /\ InsertRow(inbox, MessageIdOf(u)) = inbox
               /\ raws[u] = "insert" /\ raws'[u] = "duplicate" => inbox' = inbox
               /\ raws[u] = "insert" /\ raws'[u] = "stored" =>
                     /\ RowsOf(MessageIdOf(u)) = {}
                     /\ Cardinality(RowsIn(inbox', MessageIdOf(u))) = 1
          /\ (idempotency' = EmptyStore /\ idempotency # EmptyStore) => inbox' = inbox]_vars

(* A mail whose row was stored and whose key was marked by its own store  *)
(* task is fetched again after the store lost the key, and its insert     *)
(* meets the row.                                                         *)
ReinsertAfterStoreLoss ==
    \E u \in Uids :
       /\ raws[u] = "duplicate"
       /\ idempotency = EmptyStore
       /\ \A v \in Uids \ {u} : mailbox[v].flag = "absent"



(* C33: terminal queue statuses are never overwritten: the status of an   *)
(* entry changes only from waiting, and an entry that is cancelled or     *)
(* expired never becomes assigned.                                        *)
TerminalNeverOverwritten ==
    [][\A e \in EntryIds :
         /\ entries'[e].status # entries[e].status => entries[e].status = "waiting"
         /\ entries[e].status \in {"cancelled", "expired"} =>
               entries'[e].status # "assigned"]_vars



(* C34: visitor state matches the queue: a visitor's service status is    *)
(* queued if and only if the visitor has an entry with status waiting.    *)
VisitorMatchesQueue ==
    \A v \in DOMAIN visitors : visitors[v] = "queued" <=> existing_queue(v) # {}



(* C35: bounded attempts. With one consumer of the channel a record is    *)
(* handed to the Responder only while its retry_count is below            *)
(* max(1, max_retry_attempts), and its retry_count never exceeds that,    *)
(* for every configured max_retry_attempts, 0 included.                   *)
BoundedAttempts ==
    /\ [](\A r \in 1..Len(inbox) : inbox[r].retry_count <= Max(1, max_retry_attempts))
    /\ [][cons["c1"].pc = "claim" /\ cons'["c1"].pc = "respond" =>
             inbox[cons["c1"].cands[cons["c1"].idx]].retry_count
                < Max(1, max_retry_attempts)]_vars



(* C36: no permanent lock-out of a project. The project is in             *)
(* _processing_project_ids exactly while a reactive sweep of it is        *)
(* scheduled or running: however a sweep ends, the project is removed,    *)
(* and a trigger that finds no sweep in flight starts one.                *)
NoLockOut ==
    /\ [](Project \in processing <=> \E w \in Sweeps : qtasks[w].pc # "idle")
    /\ [][\A w \in Sweeps :
            /\ qtasks[w].pc # "idle" /\ qtasks'[w].pc = "idle" =>
                  Project \notin processing'
            /\ qtasks[w].pc = "idle" /\ qtasks'[w].pc # "idle" =>
                  /\ Project \notin processing
                  /\ Project \in processing'
                  /\ qtasks'[w].pc = "scheduled"]_vars

(* A sweep has ended with an attempt that found no staff, and the next    *)
(* trigger has scheduled a new sweep of the project.                      *)
SweepScheduledAgain ==
    /\ \E w \in Sweeps : qtasks[w].pc = "scheduled"
    /\ \A t \in QTasks : qtasks[t].pc \in {"idle", "scheduled"}
    /\ \E e \in EntryIds :
          entries[e].status = "waiting" /\ entries[e].last_attempt_at # NoTime



CursorBehindLedger ==
    /\ \A i \in 1..kf_cursor :
          KfMessages[i] # NoMid => RowsOf(KfMessages[i]) # {}
    /\ \A k \in Syncs : syncs[k].page <= MaxIters



(* C39: mailbox poller reconciliation. After every call of                *)
(* _reconcile_platform_tasks the platforms that own a poller task are the *)
(* platforms passed in, the pollers of the removed ones have ended; no    *)
(* platform has two pollers, no poller lives outside _tasks, and after    *)
(* the supervisor loop has stopped no poller task remains.                *)
PollersReconciled ==
    /\ [][listener.supervisor = "reconcile" /\ listener'.supervisor = "wait" =>
             /\ listener'.tasks = listener.platforms
             /\ \A p \in PlatformIds :
                   listener'.pollers[p] =
                      IF p \in listener.platforms /\ ~(p \in listener.tasks /\ listener.pollers[p] = 0)
                      THEN 1 ELSE 0]_vars
    /\ [](\A p \in PlatformIds :
             /\ listener.pollers[p] <= 1
             /\ listener.pollers[p] = 1 => p \in listener.tasks)
    /\ [](listener.supervisor = "ended" =>
             /\ listener.tasks = {}
             /\ \A p \in PlatformIds : listener.pollers[p] = 0)

(* A reconciliation has started the poller of one platform and cancelled  *)
(* the poller of another, which has ended.                                *)
PollerReplaced ==
    /\ listener.supervisor = "wait"
    /\ listener.to_cancel = {"p1"}
    /\ listener.tasks = {"p2"}
    /\ listener.pollers["p1"] = 0
    /\ listener.pollers["p2"] = 1

(* C40: the in-progress set of the fallback sweep does not leak. While no *)
(* fallback batch is in flight _processing_ids is empty, so that no       *)
(* waiting entry is kept out of a later batch.                            *)
ProcessingIdsReleased ==
    qtasks["fallback"].pc = "idle" => processing_ids = {}


====
